---- MODULE Spec2Model ----
(***************************************************************************)
(* A model of the TLS reverse proxy of c2FmZQ/tlsproxy.                    *)
(*                                                                         *)
(*  - Proxy (src/internal/proxy.go): New, Reconfigure, Start, Stop, the    *)
(*    per-connection handler handleConnection, Backend.dial and forward.  *)
(*  - Config.Check (src/unnamed/part_000): the configuration validator.    *)
(*  - UpdateECH (src/proxy/internal/cloudflare/cloudflare.go): the update  *)
(*    of the ech parameter of the HTTPS records of a DNS provider.         *)
(*                                                                         *)
(* Ten specifications share the definitions below:                        *)
(*    Spec       two concurrent connections and Reconfigure                *)
(*    SpecDial   two concurrent connections, every combination of          *)
(*               reachable upstream addresses, configuration fixed         *)
(*    SpecAdm    the admission gate under a small MaxOpen, more            *)
(*               connections than MaxOpen, configuration fixed             *)
(*    SpecCheck  ReadConfig: a configuration of a bounded family is        *)
(*               decoded, then Config.Check is applied to it               *)
(*    SpecBackend  ReadConfig on files whose last backend takes its mode,   *)
(*               addresses, ALPN list, PROXY protocol version and path     *)
(*               overrides from input sets, and on files that give         *)
(*               MaxOpen, identity providers, PKIs, bandwidth groups and   *)
(*               half-close fields; Check is then applied once more        *)
(*    SpecECH    UpdateECH called twice on a provider with three records   *)
(*    SpecRe     one connection while the configuration is read again      *)
(*    SpecFwd    one connection and the clock of its read deadlines        *)
(*    SpecFwdFair  SpecFwd with the handler scheduled fairly                *)
(*    SpecStop   one connection, the clock, Stop and cancellation, with    *)
(*               every goroutine of the proxy scheduled fairly             *)
(***************************************************************************)
EXTENDS Integers, Sequences, FiniteSets, TLC

\* ------------------------------------------------------------------ bounds

\* Number of connection slots of SpecAdm (each slot is reused after teardown).
MaxConns == 3
\* MaxOpen of the configuration SpecAdm runs under.
MaxOpenAdm == 2
\* Number of upstream addresses of the multi-address backend.
NumAddr == 3

\* Config.Check: the most backends of a configuration, and the most server
\* names of all its backends together.
MaxBackends == 2
MaxNames == 3

\* The read deadline of the copies, in minutes.
ReadDeadline == 15
\* Backend.HalfCloseTimeout, in minutes (its default).
HalfCloseTimeout == 1
\* Backend.ServerCloseEndsConnection (its default).
ServerCloseEndsConnection == TRUE

Conns == 1..MaxConns
\* The connection slots of Spec and SpecDial: two handlers, the least number
\* that lets the steps of two connections interleave.
ConnsRe == {1, 2}

\* --------------------------------------------------------- configurations

NoBackend == "none"
NoConfig == "nil"

\* The server names a client may send in its ClientHello.
ClientSNIs == {"a.test", "b.test", "x.test", "A.TEST"}

\* Upstream addresses are named by their index in Backend.Addresses; the
\* addresses of a backend with n addresses are 0..n-1.
AddrIdx(n) == 0..(n - 1)

\* The Backend objects of the configurations below.  Every configuration owns
\* its own Backend objects (cfg.Backends holds pointers), so each has its own
\* round-robin cursor.  certsOK says whether loadCerts succeeds on ClientCAs.
Backends ==
  [ A1 |-> [ServerNames |-> <<"a.test">>, ClientAuth |-> FALSE, certsOK |-> TRUE,  nAddr |-> 1],
    B1 |-> [ServerNames |-> <<"a.test">>, ClientAuth |-> FALSE, certsOK |-> TRUE,  nAddr |-> 1],
    B2 |-> [ServerNames |-> <<"b.test">>, ClientAuth |-> TRUE,  certsOK |-> TRUE,  nAddr |-> 1],
    C1 |-> [ServerNames |-> <<"a.test">>, ClientAuth |-> TRUE,  certsOK |-> TRUE,  nAddr |-> 1],
    D1 |-> [ServerNames |-> <<"a.test">>, ClientAuth |-> FALSE, certsOK |-> TRUE,  nAddr |-> 1],
    D2 |-> [ServerNames |-> <<"b.test">>, ClientAuth |-> TRUE,  certsOK |-> FALSE, nAddr |-> 1],
    M1 |-> [ServerNames |-> <<"a.test">>, ClientAuth |-> FALSE, certsOK |-> TRUE,  nAddr |-> NumAddr],
    M2 |-> [ServerNames |-> <<"b.test">>, ClientAuth |-> TRUE,  certsOK |-> TRUE,  nAddr |-> 1],
    T1 |-> [ServerNames |-> <<"a.test">>, ClientAuth |-> FALSE, certsOK |-> TRUE,  nAddr |-> NumAddr],
    T2 |-> [ServerNames |-> <<"b.test">>, ClientAuth |-> TRUE,  certsOK |-> TRUE,  nAddr |-> 1] ]

BackendIds == DOMAIN Backends

\* The configurations handed to New and Reconfigure.
\*   adm   SpecAdm's configuration: one backend, MaxOpen = MaxOpenAdm
\* (the other three have a MaxOpen that two connections never reach)
\*   two   two backends, a.test without and b.test with client authentication
\*   auth  a.test now requires client authentication, b.test is removed
\*   bad   a configuration whose second backend has an unloadable ClientCAs
\*   multi as two, with NumAddr upstream addresses behind a.test
\*   twin  the file of multi read again: other objects, the same content
Configs ==
  [ adm  |-> [MaxOpen |-> MaxOpenAdm,     Backends |-> <<"A1">>],
    two  |-> [MaxOpen |-> 3, Backends |-> <<"B1", "B2">>],
    auth |-> [MaxOpen |-> 3, Backends |-> <<"C1">>],
    bad  |-> [MaxOpen |-> 3, Backends |-> <<"D1", "D2">>],
    multi |-> [MaxOpen |-> 3, Backends |-> <<"M1", "M2">>],
    twin |-> [MaxOpen |-> 3, Backends |-> <<"T1", "T2">>] ]

ReconfInputs == {"two", "auth", "bad"}
\* The configurations SpecRe calls Reconfigure with.
RereadInputs == {"twin", "auth"}

\* A variant of the comparison of configurations: by the identity of the
\* object instead of its serialized form.
MarshalIdentity(k) == <<k>>

\* yaml.Marshal(cfg): the exported fields of the configuration, without the
\* identity of the objects that hold them.  The nil configuration marshals to
\* "null".
Marshal(k) ==
  IF k = NoConfig THEN <<"null">>
  ELSE <<Configs[k].MaxOpen,
         [i \in DOMAIN Configs[k].Backends |->
            LET b == Backends[Configs[k].Backends[i]]
            IN  [ServerNames |-> b.ServerNames, ClientAuth |-> b.ClientAuth,
                 certsOK |-> b.certsOK, nAddr |-> b.nAddr]]>>

\* ------------------------------------------------------------------ state

VARIABLES
  proc,      \* "init" | "new" | "started" | "crashed": the proxy's life cycle
  pcfg,      \* p.cfg: index of the published configuration, NoConfig when nil
  mapping,   \* p.mapping: server name -> Backend object, NoBackend when absent
  tlsConfig, \* be.tlsConfig of every Backend object: "nil" | "requireCert"
  numOpen,   \* p.numOpen
  next,      \* be.next of every Backend object
  reach,     \* the upstream addresses that accept connections
  conn,      \* the handler of every connection slot
  overlapped,\* history, per Backend object: whether the attempts of two
             \* dial calls on it ever interleaved
  fullClose, \* history: the last accept or exit was an exit that took
             \* numOpen from MaxOpen to MaxOpen - 1
  ret,       \* what the last Reconfigure call on the live proxy returned:
             \* "same" (nil, nothing to do), "published" (nil) or "err";
             \* "" before the first call
  life,      \* what Start creates and Stop ends: ctx is p.ctx ("none" before
             \* Start, "live", "done"), cancel is p.cancel ("nil", "set"),
             \* listener is p.listener ("none", "open", "closed"), stop the
             \* place of a running Stop call ("" when none runs, "cancelled"
             \* between its p.cancel() and its p.cancel = nil), watcher the
             \* place of the goroutine that waits for p.ctx ("none", "wait",
             \* "close" before listener.Close(), "done"), loop the place of
             \* the accept goroutine ("none", "accept" in Accept, "log" at
             \* the log line of an Accept error)
  cfgIn,     \* ReadConfig: the configuration as decoded
  cfgOut,    \* ReadConfig: the configuration as Check leaves it
  checkErr,  \* ReadConfig: "decoding", then "" (accepted) or the error
             \* of Check; "none" where no configuration is read
  rlimit,    \* what openFileLimit() returns in this process: the soft limit
             \* on open files n, or an error
  dials,     \* history, per Backend object: the number of dial attempts made
             \* on it so far, counted modulo the number of its addresses
  ech        \* UpdateECH: the DNS records of the provider, the requests
             \* sent to it and the place of the running call

vars == <<proc, pcfg, mapping, tlsConfig, numOpen, next, reach, conn,
          overlapped, fullClose, ret, life, cfgIn, cfgOut, checkErr, rlimit,
          dials, ech>>

proxyVars == <<proc, pcfg, mapping, tlsConfig, numOpen, next, reach, conn,
               overlapped, fullClose, ret, life>>
envVars == <<rlimit, ech>>
checkVars == <<cfgIn, cfgOut, checkErr, envVars>>

\* A connection slot with no handler running.  Of a handler: pc is its place
\* in handleConnection, n the value incNumOpen(1) returned, sni the server
\* name of the ClientHello, hsBe the backend GetConfigForClient resolved, cert
\* whether a peer certificate was verified, be the backend resolved after the
\* handshake, max the local of dial, e2i and i2e how the copy in that
\* direction has returned ("" while it has not, "eof", "err"), ext and int
\* which sides of extConn and intConn the copies can still use, idle the
\* minutes since the last read of each copy, up the upstream address intConn is connected to
\* (<<>> when there is none), exit the return taken.  History: tried, the
\* addresses this dial call attempted; alone, no other call attempted an
\* address of the backend between them; prev, what numOpen was at the accept
\* ("full": equal to MaxOpen; "closed": a connection had just closed from
\* MaxOpen).
Open == [rd |-> TRUE, wr |-> TRUE]
Shut == [rd |-> FALSE, wr |-> FALSE]

IdleConn ==
  [pc |-> "idle", n |-> 0, sni |-> "", cert |-> FALSE, hsBe |-> NoBackend,
   be |-> NoBackend, max |-> 0, tried |-> <<>>, alone |-> TRUE, up |-> <<>>,
   e2i |-> "", i2e |-> "", ext |-> Shut, int |-> Shut,
   idle |-> [e2i |-> 0, i2e |-> 0], late |-> FALSE, exit |-> "", prev |-> ""]

EmptyMapping == [s \in ClientSNIs |-> NoBackend]

\* A Proxy that Start has not been called on.
NotStarted ==
  [ctx |-> "none", cancel |-> "nil", listener |-> "none", stop |-> "",
   watcher |-> "none", loop |-> "none"]

\* ------------------------------------------------- New, Reconfigure, Start

\* The mapping Reconfigure builds from the first i backends of configuration
\* k: every server name of every backend, a later backend replacing an
\* earlier one on the same name.
RECURSIVE MappingUpTo(_, _)
MappingUpTo(k, i) ==
  IF i = 0 THEN EmptyMapping
  ELSE LET prev == MappingUpTo(k, i - 1)
           b == Configs[k].Backends[i]
           names == {Backends[b].ServerNames[j] : j \in DOMAIN Backends[b].ServerNames}
       IN  [s \in ClientSNIs |-> IF s \in names THEN b ELSE prev[s]]

\* A variant of the new mapping: the entries of the old mapping stay for the
\* names the new configuration does not have.
NewMappingOverOld(k) ==
  [s \in ClientSNIs |->
     IF MappingUpTo(k, Len(Configs[k].Backends))[s] # NoBackend
     THEN MappingUpTo(k, Len(Configs[k].Backends))[s]
     ELSE mapping[s]]

NewMapping(k) == MappingUpTo(k, Len(Configs[k].Backends))

\* loadCerts fails on the ClientCAs of backend b.
LoadFails(b) == Backends[b].ClientAuth /\ ~Backends[b].certsOK

\* The index of the first backend of k on which Reconfigure returns an error,
\* 0 when there is none.
FirstBad(k) ==
  LET bad == {i \in DOMAIN Configs[k].Backends : LoadFails(Configs[k].Backends[i])}
  IN  IF bad = {} THEN 0 ELSE CHOOSE i \in bad : \A j \in bad : i <= j

\* be.tlsConfig after Reconfigure(k): set on every client-auth backend the
\* loop reaches before it returns.
TlsConfigAfter(k) ==
  LET stop == FirstBad(k)
      seen == {Configs[k].Backends[i] :
                 i \in {j \in DOMAIN Configs[k].Backends : stop = 0 \/ j < stop}}
  IN  [b \in BackendIds |->
         IF b \in seen /\ Backends[b].ClientAuth THEN "requireCert" ELSE tlsConfig[b]]

\* A variant of Reconfigure: the mapping and the configuration are published
\* before the certificate bundles are loaded.
ReconfigureBodyEager(k) ==
  IF Marshal(pcfg) = Marshal(k)
  THEN UNCHANGED <<pcfg, mapping, tlsConfig>>
  ELSE /\ tlsConfig' = TlsConfigAfter(k)
       /\ mapping' = NewMapping(k)
       /\ pcfg' = k

\* The state change of p.Reconfigure(cfg), under p.mu.
ReconfigureBody(k) ==
  IF Marshal(pcfg) = Marshal(k)
  THEN UNCHANGED <<pcfg, mapping, tlsConfig>>
  ELSE /\ tlsConfig' = TlsConfigAfter(k)
       /\ IF FirstBad(k) # 0
          THEN UNCHANGED <<pcfg, mapping>>
          ELSE /\ mapping' = NewMapping(k)
               /\ pcfg' = k

\* What p.Reconfigure(cfg) returns: nil without a change, nil after
\* publishing, or the error of loadCerts.
ReconfigureReturns(k) ==
  IF Marshal(pcfg) = Marshal(k) THEN "same"
  ELSE IF FirstBad(k) # 0 THEN "err" ELSE "published"

\* A variant of Reconfigure's effect on the handlers: a forwarding connection
\* whose backend the new mapping no longer holds is ended.
HandlersCutOnReconfigure(k) ==
  [c \in DOMAIN conn |->
     IF /\ conn[c].pc = "forward"
        /\ ReconfigureReturns(k) = "published"
        /\ NewMapping(k)[conn[c].sni] # conn[c].be
     THEN [conn[c] EXCEPT !.pc = "teardown", !.exit = "end"]
     ELSE conn[c]]

\* Reconfigure's effect on the handlers: it reads and writes p.cfg, p.mapping
\* and the tlsConfig of the new backends, and nothing a handler holds.
HandlersAfterReconfigure(k) == conn

\* New(cfg): builds the Proxy, calls Reconfigure and drops its error.
New(k) ==
  /\ proc = "init"
  /\ proc' = "new"
  /\ ReconfigureBody(k)
  /\ UNCHANGED <<numOpen, next, reach, conn, overlapped, fullClose, ret, life, checkVars, dials>>

\* p.Reconfigure(cfg) on a live proxy.
Reconfigure(k) ==
  /\ proc \in {"new", "started"}
  /\ ReconfigureBody(k)
  /\ ret' = ReconfigureReturns(k)
  /\ conn' = HandlersAfterReconfigure(k)
  /\ UNCHANGED <<proc, numOpen, next, reach, overlapped, fullClose, life, checkVars, dials>>

\* p.Start(ctx): dereferences p.cfg, opens the listener, derives p.ctx and
\* p.cancel from ctx and starts the goroutine that waits for p.ctx and the
\* accept loop.  bound is whether tls.Listen succeeds.
Start(bound) ==
  /\ proc = "new"
  /\ proc' = IF pcfg = NoConfig THEN "crashed"
             ELSE IF bound THEN "started" ELSE "new"
  /\ life' = IF pcfg # NoConfig /\ bound
             THEN [life EXCEPT !.ctx = "live", !.cancel = "set", !.listener = "open",
                               !.watcher = "wait", !.loop = "accept"]
             ELSE life
  /\ UNCHANGED <<pcfg, mapping, tlsConfig, numOpen, next, reach, conn,
                 overlapped, fullClose, ret, checkVars, dials>>

\* ----------------------------------------------------------------- Stop

\* The context passed to Start is cancelled: p.ctx, derived from it, is done.
Cancel ==
  /\ proc = "started"
  /\ life.ctx = "live"
  /\ life' = [life EXCEPT !.ctx = "done"]
  /\ UNCHANGED <<proc, pcfg, mapping, tlsConfig, numOpen, next, reach, conn,
                 overlapped, fullClose, ret, checkVars, dials>>

\* p.Stop() up to its call of p.cancel(); it returns at once where p.cancel
\* is nil.
Stop ==
  /\ proc \in {"new", "started"}
  /\ life.stop = ""
  /\ life.cancel = "set"
  /\ life' = [life EXCEPT !.ctx = "done", !.stop = "cancelled"]
  /\ UNCHANGED <<proc, pcfg, mapping, tlsConfig, numOpen, next, reach, conn,
                 overlapped, fullClose, ret, checkVars, dials>>

\* p.Stop(): p.cancel = nil, and the return.
StopClear ==
  /\ proc = "started"
  /\ life.stop = "cancelled"
  /\ life' = [life EXCEPT !.cancel = "nil", !.stop = ""]
  /\ UNCHANGED <<proc, pcfg, mapping, tlsConfig, numOpen, next, reach, conn,
                 overlapped, fullClose, ret, checkVars, dials>>

\* The values the goroutine of Start can read from p.cancel: it reads the
\* field without p.mu while Stop writes it, so after the write it reads
\* either the old value or nil.
CancelSeen == IF life.cancel = "nil" THEN {"nil", "set"} ELSE {"set"}

\* The goroutine of Start: <-p.ctx.Done(); p.cancel().  Calling the nil
\* function panics, which ends the process and every handler with it.
WatcherCancel(seen) ==
  /\ proc = "started"
  /\ life.watcher = "wait"
  /\ life.ctx = "done"
  /\ seen \in CancelSeen
  /\ IF seen = "nil"
     THEN /\ proc' = "crashed"
          /\ life' = [life EXCEPT !.watcher = "done", !.loop = "none", !.stop = "",
                                  !.listener = "closed"]
          /\ conn' = [c \in DOMAIN conn |-> IdleConn]
          /\ numOpen' = 0
          /\ fullClose' = FALSE
     ELSE /\ life' = [life EXCEPT !.watcher = "close"]
          /\ UNCHANGED <<proc, conn, numOpen, fullClose>>
  /\ UNCHANGED <<pcfg, mapping, tlsConfig, next, reach, overlapped, ret, checkVars, dials>>

\* The goroutine of Start: listener.Close(), and its end.
WatcherClose ==
  /\ proc = "started"
  /\ life.watcher = "close"
  /\ life' = [life EXCEPT !.watcher = "done", !.listener = "closed"]
  /\ UNCHANGED <<proc, pcfg, mapping, tlsConfig, numOpen, next, reach, conn,
                 overlapped, fullClose, ret, checkVars, dials>>

\* p.listener.Accept() returns an error, as it does on a closed listener.
AcceptError ==
  /\ proc = "started"
  /\ life.loop = "accept"
  /\ life.listener = "closed"
  /\ life' = [life EXCEPT !.loop = "log"]
  /\ UNCHANGED <<proc, pcfg, mapping, tlsConfig, numOpen, next, reach, conn,
                 overlapped, fullClose, ret, checkVars, dials>>

\* The accept loop after the log line: continue, back to Accept.
AcceptContinue ==
  /\ proc = "started"
  /\ life.loop = "log"
  /\ life' = [life EXCEPT !.loop = "accept"]
  /\ UNCHANGED <<proc, pcfg, mapping, tlsConfig, numOpen, next, reach, conn,
                 overlapped, fullClose, ret, checkVars, dials>>

\* ------------------------------------------------------- handleConnection

\* A variant of the lookup: a server name the mapping lacks gets the backend
\* of a.test, as a default.
LookupBackendOrDefault(sni) ==
  IF mapping[sni] # NoBackend THEN mapping[sni] ELSE mapping["a.test"]

\* p.backend(sni): the lookup in the published mapping, by the server name as
\* the client sent it.
LookupBackend(sni) == mapping[sni]

\* A variant of the admission test: the count before the increment, tested
\* with >.
TooManyOpenStale(n, maxOpen) == n - 1 > maxOpen

\* A variant of the admission test: one connection too many is let through.
TooManyOpenLate(n, maxOpen) == n > maxOpen + 1

\* The admission test of handleConnection on the value incNumOpen returned.
TooManyOpen(n, maxOpen) == n >= maxOpen

Set(c, r) == conn' = [conn EXCEPT ![c] = r]

\* The accept loop hands a connection to a new handler, which starts with
\* incNumOpen(1).
Accept(c) ==
  /\ proc = "started"
  /\ life.listener = "open" /\ life.loop = "accept"
  /\ conn[c].pc = "idle"
  /\ numOpen' = numOpen + 1
  /\ Set(c, [conn[c] EXCEPT !.pc = "admit", !.n = numOpen + 1,
                            !.prev = IF numOpen = Configs[pcfg].MaxOpen THEN "full"
                                     ELSE IF fullClose THEN "closed" ELSE ""])
  /\ fullClose' = FALSE
  /\ UNCHANGED <<proc, pcfg, mapping, tlsConfig, next, reach, overlapped, ret, life, checkVars, dials>>

\* A variant of the admission: a connection over the limit is logged as
\* rejected and handled all the same.
AdmitWithoutReturn(c) ==
  /\ conn[c].pc = "admit"
  /\ Set(c, [conn[c] EXCEPT !.pc = "hello",
                            !.exit = IF TooManyOpen(conn[c].n, Configs[pcfg].MaxOpen)
                                     THEN "rejected" ELSE ""])
  /\ UNCHANGED <<proc, pcfg, mapping, tlsConfig, numOpen, next, reach, overlapped, fullClose, ret, life, checkVars, dials>>

\* if numOpen >= p.cfg.MaxOpen { return }
Admit(c) ==
  /\ conn[c].pc = "admit"
  /\ IF TooManyOpen(conn[c].n, Configs[pcfg].MaxOpen)
     THEN Set(c, [conn[c] EXCEPT !.pc = "teardown", !.exit = "rejected"])
     ELSE Set(c, [conn[c] EXCEPT !.pc = "hello"])
  /\ UNCHANGED <<proc, pcfg, mapping, tlsConfig, numOpen, next, reach, overlapped, fullClose, ret, life, checkVars, dials>>

\* extConn.HandshakeContext(hsCtx): the handshake reads the ClientHello,
\* GetConfigForClient looks the server name up and returns the backend's
\* tlsConfig (or fails the handshake), and the handshake then succeeds only
\* if the client satisfies these parameters; it may fail for any reason (bad
\* certificate, timeout).  s is the server name sent, crt whether the client
\* has a certificate to present, ok whether nothing else fails.  The exit
\* "unknown" is the handshake failing on the error of the lookup.  After it
\* cert says whether the connection state holds a verified peer certificate,
\* which it does exactly when the parameters asked for one.  hsCtx derives
\* from p.ctx: the handshake fails once p.ctx is done.
Handshake(c, s, crt, ok) ==
  /\ conn[c].pc = "hello"
  /\ LET be == LookupBackend(s)
         req == be # NoBackend /\ tlsConfig[be] = "requireCert"
     IN  IF life.ctx = "done"
         THEN Set(c, [conn[c] EXCEPT !.pc = "teardown", !.exit = "handshake"])
         ELSE IF be = NoBackend
         THEN Set(c, [conn[c] EXCEPT !.pc = "teardown", !.exit = "unknown", !.sni = s])
         ELSE IF ~ok \/ (req /\ ~crt)
         THEN Set(c, [conn[c] EXCEPT !.pc = "teardown", !.exit = "handshake"])
         ELSE Set(c, [conn[c] EXCEPT !.pc = "resolve", !.sni = s, !.hsBe = be,
                                     !.cert = req])
  /\ UNCHANGED <<proc, pcfg, mapping, tlsConfig, numOpen, next, reach, overlapped, fullClose, ret, life, checkVars, dials>>

\* be, err := p.backend(cs.ServerName) after the handshake.
Resolve(c) ==
  /\ conn[c].pc = "resolve"
  /\ IF LookupBackend(conn[c].sni) = NoBackend
     THEN Set(c, [conn[c] EXCEPT !.pc = "teardown", !.exit = "sni"])
     ELSE Set(c, [conn[c] EXCEPT !.pc = "dial", !.be = LookupBackend(conn[c].sni),
                                 !.max = 0, !.tried = <<>>, !.alone = TRUE])
  /\ UNCHANGED <<proc, pcfg, mapping, tlsConfig, numOpen, next, reach, overlapped, fullClose, ret, life, checkVars, dials>>

\* ------------------------------------------------------------ Backend.dial

\* A variant of the cursor update: the cursor is left where it is.
AdvanceNot(cursor, sz) == cursor

\* A variant of the step of the cursor: the count goes on past the end of
\* the list.
AdvanceUnbounded(cursor, sz) == cursor + 1

\* be.next = (be.next + 1) % sz
Advance(cursor, sz) == (cursor + 1) % sz

\* A variant of the retry test: one attempt more than there are addresses.
KeepTryingOnceMore(max) == max >= 0

\* max--; if max > 0 { continue }
KeepTrying(max) == max > 0

\* The dial calls on backend b that have made an attempt and not returned.
MidDial(b) == {d \in DOMAIN conn : conn[d].pc = "dial" /\ conn[d].be = b /\ conn[d].tried # <<>>}

\* One iteration of the loop of be.dial(): under be.mu take the address at
\* the cursor and advance the cursor; dial it; on failure decrement max and
\* either loop or return the error.
DialAttempt(c) ==
  /\ conn[c].pc = "dial"
  /\ LET b == conn[c].be
         sz == Backends[b].nAddr
         max == IF conn[c].max = 0 THEN sz ELSE conn[c].max
         addr == next[b]
         others == MidDial(b) \ {c}
         r == [conn[c] EXCEPT !.tried = Append(@, addr), !.max = max]
     IN  /\ next' = [next EXCEPT ![b] = Advance(next[b], sz)]
         /\ overlapped' = [overlapped EXCEPT ![b] = @ \/ others # {}]
         /\ dials' = [dials EXCEPT ![b] = (@ + 1) % sz]
         /\ conn' = [d \in DOMAIN conn |->
              IF d \in others THEN [conn[d] EXCEPT !.alone = FALSE]
              ELSE IF d # c THEN conn[d]
              ELSE IF addr \in reach THEN [r EXCEPT !.pc = "dialed", !.up = <<b, addr>>]
              ELSE IF KeepTrying(max - 1) THEN [r EXCEPT !.max = max - 1]
              ELSE [r EXCEPT !.max = max - 1, !.pc = "teardown", !.exit = "dial"]]
  /\ UNCHANGED <<proc, pcfg, mapping, tlsConfig, numOpen, reach, fullClose, ret, life, checkVars>>

\* ---------------------------------------------------------------- forward

\* dial returned a connection: the handler starts the helper goroutine and
\* both copies.
StartForward(c) ==
  /\ conn[c].pc = "dialed"
  /\ Set(c, [conn[c] EXCEPT !.pc = "forward", !.hsBe = NoBackend, !.max = 0,
                            !.tried = <<>>, !.alone = TRUE,
                            !.ext = Open, !.int = Open])
  /\ UNCHANGED <<proc, pcfg, mapping, tlsConfig, numOpen, next, reach, overlapped, fullClose, ret, life, checkVars, dials>>

\* The endpoint a copy reads from and the one it writes to: forward(intConn,
\* extConn), "e2i", copies from the client to the upstream, forward(extConn,
\* intConn), "i2e", from the upstream to the client.
In(r, dir) == IF dir = "e2i" THEN r.ext ELSE r.int
Out(r, dir) == IF dir = "e2i" THEN r.int ELSE r.ext
Other(dir) == IF dir = "e2i" THEN "i2e" ELSE "e2i"

\* A variant of the end of a copy: both endpoints are closed however the
\* copy ended.
OnCopyEndCloseBoth(r, dir, how) ==
  [r EXCEPT !.ext = Shut, !.int = Shut, ![dir] = how]

\* A variant of the end of a copy: an error, like a clean end of stream,
\* shuts only the write side of the destination and the read side of the
\* source.
OnCopyEndErrHalfClose(r, dir, how) ==
  IF dir = "e2i" THEN [r EXCEPT !.int.wr = FALSE, !.e2i = how]
  ELSE [r EXCEPT !.ext.wr = FALSE, !.int.rd = FALSE, !.i2e = how]

\* What forward does when io.Copy returns.  On an error it closes both
\* endpoints.  On a clean end of stream it calls CloseWrite on the destination
\* and CloseRead on the source where the source has one: the upstream TCP
\* connection has, the client's tls.Conn has not.
OnCopyEnd(r, dir, how) ==
  IF how = "err" THEN [r EXCEPT !.ext = Shut, !.int = Shut, ![dir] = "err"]
  ELSE IF dir = "e2i" THEN [r EXCEPT !.int.wr = FALSE, !.e2i = "eof"]
  ELSE [r EXCEPT !.ext.wr = FALSE, !.int.rd = FALSE, !.i2e = "eof"]

\* The copy in direction dir returns: with a clean end of stream ("eof") when
\* the source's peer has closed its side, with an error ("err") on a reset,
\* on a use of an endpoint that is closed, or when the read deadline of
\* ReadDeadline minutes (set anew before every read) or the write deadline
\* passes.  A read whose deadline has passed returns the error.
CopyReturn(c, dir, how) ==
  /\ conn[c].pc = "forward"
  /\ conn[c][dir] = ""
  /\ how = "eof" => In(conn[c], dir).rd /\ conn[c].idle[dir] < ReadDeadline
  /\ Set(c, OnCopyEnd(conn[c], dir, how))
  /\ UNCHANGED <<proc, pcfg, mapping, tlsConfig, numOpen, next, reach, overlapped, fullClose, ret, life, checkVars, dials>>

\* forward(intConn, extConn) on the handler's goroutine returns.
ForwardExtToInt(c, how) == CopyReturn(c, "e2i", how)

\* forward(extConn, intConn) on the helper goroutine returns; the helper
\* then offers the result on ch.
ForwardIntToExt(c, how) == CopyReturn(c, "i2e", how)

\* One round of io.Copy in direction dir: bytes arrive before the read
\* deadline and are written to the destination.  History: late, bytes were
\* delivered in one direction after the other had ended cleanly.
CopyBytes(c, dir) ==
  /\ conn[c].pc = "forward"
  /\ conn[c][dir] = ""
  /\ In(conn[c], dir).rd /\ Out(conn[c], dir).wr
  /\ conn[c].idle[dir] < ReadDeadline
  /\ Set(c, [conn[c] EXCEPT !.idle[dir] = 0,
                            !.late = @ \/ conn[c][Other(dir)] = "eof"])
  /\ UNCHANGED <<proc, pcfg, mapping, tlsConfig, numOpen, next, reach, overlapped, fullClose, ret, life, checkVars, dials>>

\* A minute passes on connection c without a byte to read: possible while
\* no pending read has reached its deadline.
Tick(c) ==
  /\ conn[c].pc = "forward"
  /\ \E dir \in {"e2i", "i2e"} : conn[c][dir] = ""
  /\ \A dir \in {"e2i", "i2e"} : conn[c][dir] = "" => conn[c].idle[dir] < ReadDeadline
  /\ Set(c, [conn[c] EXCEPT !.idle = [dir \in {"e2i", "i2e"} |->
                               IF conn[c][dir] = "" THEN @[dir] + 1 ELSE @[dir]]])
  /\ UNCHANGED <<proc, pcfg, mapping, tlsConfig, numOpen, next, reach, overlapped, fullClose, ret, life, checkVars, dials>>

\* A variant of the end of the forwarding: the handler returns when its own
\* copy has returned, without receiving from ch.
ForwardJoinOwnCopy(c) ==
  /\ conn[c].pc = "forward"
  /\ conn[c].e2i # ""
  /\ Set(c, [conn[c] EXCEPT !.pc = "teardown", !.exit = "end",
                            !.idle = [e2i |-> 0, i2e |-> 0], !.late = FALSE])
  /\ UNCHANGED <<proc, pcfg, mapping, tlsConfig, numOpen, next, reach, overlapped, fullClose, ret, life, checkVars, dials>>

\* The handler, its own copy returned, receives the helper's result from ch
\* and returns.  ch has no buffer: the helper, whose copy has returned, waits
\* in ch <- for this receive, and exits with it.
ForwardJoin(c) ==
  /\ conn[c].pc = "forward"
  /\ conn[c].e2i # "" /\ conn[c].i2e # ""
  /\ Set(c, [conn[c] EXCEPT !.pc = "teardown", !.exit = "end",
                            !.idle = [e2i |-> 0, i2e |-> 0], !.late = FALSE])
  /\ UNCHANGED <<proc, pcfg, mapping, tlsConfig, numOpen, next, reach, overlapped, fullClose, ret, life, checkVars, dials>>

\* A variant of the release: numOpen is decremented only at the end of a
\* forwarded connection, not by a deferred call.
ReleaseAtEndOnly(e) == IF e = "end" THEN -1 ELSE 0

\* What the deferred function adds to numOpen when the handler returns by
\* exit e: incNumOpen(-1), whatever the return.
Release(e) == -1

\* The deferred calls: close the endpoints and incNumOpen(-1).
Teardown(c) ==
  /\ conn[c].pc = "teardown"
  /\ numOpen' = numOpen + Release(conn[c].exit)
  /\ Set(c, IdleConn)
  /\ fullClose' = (numOpen = Configs[pcfg].MaxOpen)
  /\ UNCHANGED <<proc, pcfg, mapping, tlsConfig, next, reach, overlapped, ret, life, checkVars, dials>>


\* ------------------------------------------------------------ Config.Check
\*
\* A configuration is [EnableQUIC, Backends, TLSAddr, MaxOpen,
\* OIDCProviders, SAMLProviders, PasskeyProviders, PKI, BWLimits], a backend
\* [ServerNames, ALPNProtos, Mode, ClientAuth, Addresses, BackendProto,
\* ProxyProtocolVersion, proxyProtocolVersion, PathOverrides, BWLimit, SSO,
\* ServerCloseEndsConnection, ClientCloseEndsConnection, HalfCloseTimeout,
\* ForwardTimeout, ForwardRateLimit], a path override [Paths, Mode,
\* ProxyProtocolVersion, proxyProtocolVersion, ForwardTimeout].  An OIDC or
\* SAML provider and a bandwidth group are [Name], a passkey provider
\* [Name, IdentityProvider, Endpoint], a PKI [Name, Endpoint]; SSO is nil
\* or the name of its provider.  Timeouts are in seconds.
\* ALPNProtos is a pointer to a slice: [nil |-> TRUE] when unset, or a list,
\* which may be empty; BackendProto is a pointer to a string in the same
\* way; ClientAuth is whether the pointer is set.  A server name, a mode and
\* an ALPN protocol are strings taken whole; a path and a
\* ProxyProtocolVersion, which Check looks into, are sequences of
\* characters.  The fields of Config and Backend that are not modelled are
\* taken to be valid.

ModeTCP == "TCP"
ModePlaintext == "PLAINTEXT"
ModeQUIC == "QUIC"
ModeTLSPassthrough == "TLSPASSTHROUGH"
ModeHTTP == "HTTP"
ModeHTTPS == "HTTPS"
ModeLocal == "LOCAL"
ModeConsole == "CONSOLE"
validModes == {"TCP", "TLS", "TLSPASSTHROUGH", "QUIC", "HTTP", "HTTPS", "LOCAL", "CONSOLE"}
defaultALPNProtos == <<"h2", "http/1.1">>
defaultALPNProtosPlusH3 == <<"h3", "h2", "http/1.1">>

NilList == [nil |-> TRUE, v |-> <<>>]
List(v) == [nil |-> FALSE, v |-> v]
NilString == [nil |-> TRUE, v |-> ""]
String(v) == [nil |-> FALSE, v |-> v]

\* strings.ToUpper on the mode strings of the model.
UpperOf ==
  [s \in {"", "tcp", "tls", "quic", "http", "Plaintext", "bogus", "https",
           "local", "Console", "tlspassthrough", "TlsPassthrough"} |->
     CASE s = "tcp" -> "TCP"
       [] s = "tls" -> "TLS"
       [] s = "quic" -> "QUIC"
       [] s = "http" -> "HTTP"
       [] s = "https" -> "HTTPS"
       [] s = "local" -> "LOCAL"
       [] s = "Console" -> "CONSOLE"
       [] s = "tlspassthrough" -> "TLSPASSTHROUGH"
       [] s = "TlsPassthrough" -> "TLSPASSTHROUGH"
       [] s = "Plaintext" -> "PLAINTEXT"
       [] s = "bogus" -> "BOGUS"
       [] OTHER -> s]
ToUpper(s) == IF s \in DOMAIN UpperOf THEN UpperOf[s] ELSE s

\* idnaToASCII: the IDNA2008 lookup conversion of a host name to ASCII.  It
\* maps upper-case letters to lower case and leaves a name that is already in
\* its ASCII lookup form unchanged.
idnaToASCII(h) ==
  CASE h = "A.TEST" -> "a.test"
    [] h = "B.TEST" -> "b.test"
    [] OTHER -> h

\* A variant of the normalisation of a server name: the name is kept as
\* written.
CanonicalAsWritten(sn) == sn

\* sn = idnaToASCII(sn), the form under which Check stores and compares a
\* server name.
Canonical(sn) == idnaToASCII(sn)

\* A variant of the normalisation of the mode: PLAINTEXT is not a name of
\* TCP.
NormalModeEmptyOnly(m) ==
  LET up == ToUpper(m)
  IN  IF up = "" THEN ModeTCP ELSE up

\* be.Mode after the first two statements of the loop: upper-cased, and TCP
\* for the empty mode and for PLAINTEXT.
NormalMode(m) ==
  LET up == ToUpper(m)
  IN  IF up = "" \/ up = ModePlaintext THEN ModeTCP ELSE up

\* A variant of the default ALPN list: h3 is offered in the modes that can
\* serve it whether QUIC is enabled or not.
DefaultALPNByModeOnly(mode, enableQUIC) ==
  IF mode \in {ModeHTTP, ModeHTTPS, ModeQUIC, ModeLocal, ModeConsole}
  THEN List(defaultALPNProtosPlusH3)
  ELSE List(defaultALPNProtos)

\* The ALPN list Check gives a backend of mode mode that has none.
DefaultALPN(mode, enableQUIC) ==
  IF enableQUIC /\ mode \in {ModeHTTP, ModeHTTPS, ModeQUIC, ModeLocal, ModeConsole}
  THEN List(defaultALPNProtosPlusH3)
  ELSE List(defaultALPNProtos)

\* A variant of the first loop: client authentication is refused where the
\* mode is written TLSPASSTHROUGH, in upper case.
CheckModeAsWritten(be, enableQUIC) ==
  LET mode == NormalMode(be.Mode)
      b1 == [be EXCEPT !.Mode = mode]
      b2 == IF be.ALPNProtos.nil
            THEN [b1 EXCEPT !.ALPNProtos = DefaultALPN(mode, enableQUIC)]
            ELSE b1
  IN  IF mode \notin validModes
      THEN [be |-> b1, err |-> "Mode"]
      ELSE IF be.Mode = ModeTLSPassthrough /\ be.ClientAuth
      THEN [be |-> b1, err |-> "ClientAuth"]
      ELSE IF ~be.BackendProto.nil /\ mode \notin {ModeHTTP, ModeHTTPS}
      THEN [be |-> b2, err |-> "BackendProto"]
      ELSE [be |-> b2, err |-> ""]

\* The first loop over the backends, on one backend: the mode is upper-cased
\* and defaulted, then validated; client authentication is refused in TLS
\* passthrough; an unset ALPN list is defaulted; BackendProto is refused
\* outside HTTP and HTTPS.  err is the field the error is about.
CheckMode(be, enableQUIC) ==
  LET mode == NormalMode(be.Mode)
      b1 == [be EXCEPT !.Mode = mode]
      b2 == IF be.ALPNProtos.nil
            THEN [b1 EXCEPT !.ALPNProtos = DefaultALPN(mode, enableQUIC)]
            ELSE b1
  IN  IF mode \notin validModes
      THEN [be |-> b1, err |-> "Mode"]
      ELSE IF mode = ModeTLSPassthrough /\ be.ClientAuth
      THEN [be |-> b1, err |-> "ClientAuth"]
      ELSE IF ~be.BackendProto.nil /\ mode \notin {ModeHTTP, ModeHTTPS}
      THEN [be |-> b2, err |-> "BackendProto"]
      ELSE [be |-> b2, err |-> ""]

\* strconv.Itoa on the indices of the model, and the head of the error
\* messages about backend i (the i-th of the list, which Check prints
\* counting from 0) and about its path override j.
Itoa(n) == <<"0", "1", "2", "3", "4", "5", "6", "7", "8", "9">>[n + 1]
BackendErr(i, what) == "backend[" \o Itoa(i - 1) \o "]." \o what
OverrideErr(i, j, what) ==
  "backend[" \o Itoa(i - 1) \o "].PathOverrides[" \o Itoa(j - 1) \o "]." \o what

\* What openFileLimit() returns: the soft limit of most systems, and the
\* limits of the files of SpecBackend that give no MaxOpen.
PlainLimit == [n |-> 1024, err |-> FALSE]
LimitInputs ==
  {PlainLimit, [n |-> 204, err |-> FALSE], [n |-> 202, err |-> FALSE],
   [n |-> 200, err |-> FALSE], [n |-> 64, err |-> FALSE], [n |-> 0, err |-> TRUE]}

\* A *bool or *time.Duration field of a backend: nil, or set to v.
NilBool == [nil |-> TRUE, v |-> FALSE]
Bool(v) == [nil |-> FALSE, v |-> v]
NilDuration == [nil |-> TRUE, v |-> 0]
Duration(v) == [nil |-> FALSE, v |-> v]

\* The state of Check: the configuration as changed so far, the error, and
\* the maps serverNames (name -> index of the first backend with it),
\* beKeys (the (name, proto) pairs seen), identityProviders, pkis and
\* bwLimits (the names seen).

\* A variant of the defaults: the 100 descriptors kept back are taken from
\* the MaxOpen of the file too.
CheckDefaultsKeepBack(st, limit) ==
  LET s1 == IF st.cfg.TLSAddr = "" THEN [st EXCEPT !.cfg.TLSAddr = ":10443"] ELSE st
  IN  IF s1.cfg.MaxOpen # 0 THEN [s1 EXCEPT !.cfg.MaxOpen = @ - 100]
      ELSE IF limit.err THEN [s1 EXCEPT !.err = "MaxOpen: value must be set"]
      ELSE [s1 EXCEPT !.cfg.MaxOpen = (limit.n \div 2) - 100]

\* The defaults at the head of Check: TLSAddr, and MaxOpen, which is taken
\* from the limit on open files where the file gives none.  limit is what
\* openFileLimit() returns.
CheckDefaults(st, limit) ==
  LET s1 == IF st.cfg.TLSAddr = "" THEN [st EXCEPT !.cfg.TLSAddr = ":10443"] ELSE st
  IN  IF s1.cfg.MaxOpen # 0 THEN s1
      ELSE IF limit.err THEN [s1 EXCEPT !.err = "MaxOpen: value must be set"]
      ELSE [s1 EXCEPT !.cfg.MaxOpen = (limit.n \div 2) - 100]

\* for i, oi := range cfg.OIDCProviders and for i, s := range
\* cfg.SAMLProviders, from provider i on: the names must be new.  The other
\* fields of the providers of the model are as Check wants them.
RECURSIVE OIDCLoop(_, _)
OIDCLoop(st, i) ==
  IF st.err # "" \/ i > Len(st.cfg.OIDCProviders) THEN st
  ELSE LET oi == st.cfg.OIDCProviders[i]
       IN  IF oi.Name \in st.identityProviders
           THEN [st EXCEPT !.err = "oidc[" \o Itoa(i - 1) \o "].Name: duplicate provider name"]
           ELSE OIDCLoop([st EXCEPT !.identityProviders = @ \cup {oi.Name}], i + 1)

RECURSIVE SAMLLoop(_, _)
SAMLLoop(st, i) ==
  IF st.err # "" \/ i > Len(st.cfg.SAMLProviders) THEN st
  ELSE LET sp == st.cfg.SAMLProviders[i]
       IN  IF sp.Name \in st.identityProviders
           THEN [st EXCEPT !.err = "saml[" \o Itoa(i - 1) \o "].Name: duplicate provider name"]
           ELSE SAMLLoop([st EXCEPT !.identityProviders = @ \cup {sp.Name}], i + 1)

\* The body of for i, pp := range cfg.PasskeyProviders, on provider i: the
\* name must be new and is registered; Endpoint and IdentityProvider must be
\* set; IdentityProvider must be a name registered so far.
CheckPasskey(st, i) ==
  LET pp == st.cfg.PasskeyProviders[i]
      head == "passkey[" \o Itoa(i - 1) \o "]."
      s1 == [st EXCEPT !.identityProviders = @ \cup {pp.Name}]
  IN  IF pp.Name \in st.identityProviders
      THEN [st EXCEPT !.err = head \o "Name: duplicate provider name"]
      ELSE IF pp.Endpoint = ""
      THEN [s1 EXCEPT !.err = head \o "Endpoint must be set"]
      ELSE IF pp.IdentityProvider = ""
      THEN [s1 EXCEPT !.err = head \o "IdentityProvider must be set"]
      ELSE IF pp.IdentityProvider \notin s1.identityProviders
      THEN [s1 EXCEPT !.err = head \o "IdentityProvider has unexpected value"]
      ELSE s1

RECURSIVE PasskeyLoop(_, _)
PasskeyLoop(st, i) ==
  IF st.err # "" \/ i > Len(st.cfg.PasskeyProviders) THEN st
  ELSE PasskeyLoop(CheckPasskey(st, i), i + 1)

\* The end of the body of the first loop: in mode QUIC, a
\* ServerCloseEndsConnection and a ClientCloseEndsConnection that are nil
\* are set to false.
HalfCloseDefaults(be) ==
  IF be.Mode = ModeQUIC
  THEN [be EXCEPT !.ServerCloseEndsConnection = IF @.nil THEN Bool(FALSE) ELSE @,
                  !.ClientCloseEndsConnection = IF @.nil THEN Bool(FALSE) ELSE @]
  ELSE be

RECURSIVE ModeLoop(_, _)
ModeLoop(st, i) ==
  IF st.err # "" \/ i > Len(st.cfg.Backends) THEN st
  ELSE LET c == CheckMode(st.cfg.Backends[i], st.cfg.EnableQUIC)
           r == IF c.err = "" THEN [c EXCEPT !.be = HalfCloseDefaults(@)] ELSE c
       IN  ModeLoop([st EXCEPT !.cfg.Backends[i] = r.be,
                               !.err = IF r.err = "" THEN "" ELSE BackendErr(i, r.err)],
                    i + 1)

\* for _, proto := range *be.ALPNProtos, from the p-th proto on.
RECURSIVE ProtoLoop(_, _, _, _)
ProtoLoop(st, sn, protos, p) ==
  IF p > Len(protos) THEN st
  ELSE IF <<sn, protos[p]>> \in st.beKeys
  THEN [st EXCEPT !.err = "duplicate server name alpnProto combination"]
  ELSE ProtoLoop([st EXCEPT !.beKeys = @ \cup {<<sn, protos[p]>>}], sn, protos, p + 1)

\* The body of the loop over the server names of backend i, on name j.
CheckName(st, i, j) ==
  LET be == st.cfg.Backends[i]
      sn == Canonical(be.ServerNames[j])
      s1 == [st EXCEPT !.cfg.Backends[i].ServerNames[j] = sn]
  IN  IF sn \notin DOMAIN st.serverNames
      THEN ProtoLoop([s1 EXCEPT !.serverNames = (sn :> i) @@ @], sn, be.ALPNProtos.v, 1)
      ELSE IF Len(be.ALPNProtos.v) = 0
      THEN [s1 EXCEPT !.err = "duplicate server name"]
      ELSE ProtoLoop(s1, sn, be.ALPNProtos.v, 1)

\* The loops over the backends and their server names, from name j of
\* backend i on.
RECURSIVE NameLoop(_, _, _)
NameLoop(st, i, j) ==
  IF st.err # "" \/ i > Len(st.cfg.Backends) THEN st
  ELSE IF j > Len(st.cfg.Backends[i].ServerNames) THEN NameLoop(st, i + 1, 1)
  ELSE NameLoop(CheckName(st, i, j), i, j + 1)

\* The decimal digits and their values.
Digits == {"0", "1", "2", "3", "4", "5", "6", "7", "8", "9"}
DigitVal(c) == CHOOSE n \in 0..9 : Itoa(n) = c

\* The number the digits ds denote, after the digits read so far gave acc.
RECURSIVE Decimal(_, _)
Decimal(ds, acc) ==
  IF ds = <<>> THEN acc ELSE Decimal(Tail(ds), 10 * acc + DigitVal(Head(ds)))

\* strconv.ParseInt(s, 10, 8): an optional sign, then one or more decimal
\* digits, denoting a number from -128 to 127.
ParseInt8(s) ==
  LET signed == s # <<>> /\ Head(s) \in {"+", "-"}
      neg == s # <<>> /\ Head(s) = "-"
      ds == IF signed THEN Tail(s) ELSE s
      un == Decimal(ds, 0)
  IN  IF ds = <<>> \/ \E k \in DOMAIN ds : ds[k] \notin Digits
      THEN [v |-> 0, err |-> "invalid syntax"]
      ELSE IF (~neg /\ un >= 128) \/ (neg /\ un > 128)
      THEN [v |-> 0, err |-> "value out of range"]
      ELSE [v |-> IF neg THEN 0 - un ELSE un, err |-> ""]

\* byte(v) of an int64: the low eight bits.
Byte(v) == v % 256

\* validateProxyProtoVersion(s): the version byte and the error.
validateProxyProtoVersion(s) ==
  IF s = <<>> THEN [v |-> 0, err |-> ""]
  ELSE IF Len(s) < 2 \/ s[1] # "v"
  THEN [v |-> 0, err |-> "invalid value, expected v1 or v2"]
  ELSE LET r == ParseInt8(Tail(s))
       IN  IF r.err # "" THEN [v |-> 0, err |-> r.err]
           ELSE [v |-> Byte(r.v), err |-> ""]

\* A variant of the test of a path: the empty path passes.
HasSlashPrefixOrEmpty(n) == n = <<>> \/ n[1] = "/"

\* strings.HasPrefix(n, "/")
HasSlashPrefix(n) == n # <<>> /\ n[1] = "/"

\* The body of the loop over the path overrides of backend i, on override j.
CheckOverride(st, i, j) ==
  LET be == st.cfg.Backends[i]
      po == be.PathOverrides[j]
      mode == ToUpper(IF po.Mode = "" THEN be.Mode ELSE po.Mode)
      ver == validateProxyProtoVersion(po.ProxyProtocolVersion)
      s1 == [st EXCEPT !.cfg.Backends[i].PathOverrides[j].Mode = mode]
      s2 == [s1 EXCEPT !.cfg.Backends[i].PathOverrides[j].ForwardTimeout =
                         IF @ = 0 THEN 30 ELSE @]
  IN  IF Len(po.Paths) = 0
      THEN [st EXCEPT !.err = OverrideErr(i, j, "Paths: cannot be empty")]
      ELSE IF \E k \in DOMAIN po.Paths : ~HasSlashPrefix(po.Paths[k])
      THEN [st EXCEPT !.err = OverrideErr(i, j, "Paths: must start with /")]
      ELSE IF mode \notin {ModeHTTP, ModeHTTPS}
      THEN [s1 EXCEPT !.err = OverrideErr(i, j, "Mode")]
      ELSE IF ver.err # ""
      THEN [s2 EXCEPT !.err = OverrideErr(i, j, "ProxyProtocolVersion")]
      ELSE [s2 EXCEPT !.cfg.Backends[i].PathOverrides[j].proxyProtocolVersion = ver.v]

\* for j, po := range be.PathOverrides, from override j on.
RECURSIVE OverrideLoop(_, _, _)
OverrideLoop(st, i, j) ==
  IF st.err # "" \/ j > Len(st.cfg.Backends[i].PathOverrides) THEN st
  ELSE OverrideLoop(CheckOverride(st, i, j), i, j + 1)

\* A variant of the two tests on the addresses: only the backend without
\* an address is refused.
AddressesErrorWhenNone(be) ==
  IF Len(be.Addresses) = 0
     /\ be.Mode \notin {ModeConsole, ModeHTTP, ModeHTTPS, ModeLocal}
  THEN "Addresses: backend must have at least one address"
  ELSE ""

\* The two tests of the last loop on the addresses of a backend: the error,
\* "" when there is none.
AddressesError(be) ==
  IF Len(be.Addresses) = 0
     /\ be.Mode \notin {ModeConsole, ModeHTTP, ModeHTTPS, ModeLocal}
  THEN "Addresses: backend must have at least one address"
  ELSE IF Len(be.Addresses) > 0 /\ be.Mode \in {ModeConsole, ModeLocal}
  THEN "Addresses: Addresses should be empty when Mode is CONSOLE or LOCAL"
  ELSE ""

\* The body of the last loop over the backends, on backend i: a backend must
\* have a server name; it must have an address unless its mode is CONSOLE,
\* HTTP, HTTPS or LOCAL and must have none in CONSOLE and LOCAL; its
\* BWLimit, where set, must be the name of a bandwidth group and the
\* provider of its SSO, where it has one, the name of an identity provider;
\* ForwardTimeout and ForwardRateLimit are defaulted (to 30 seconds and to
\* 5); its ProxyProtocolVersion is validated and stored; path overrides are
\* refused outside HTTP and HTTPS, and validated.
CheckBackend(st, i) ==
  LET be == st.cfg.Backends[i]
      ver == validateProxyProtoVersion(be.ProxyProtocolVersion)
      s1 == [st EXCEPT !.cfg.Backends[i].ForwardTimeout = IF @ = 0 THEN 30 ELSE @]
      s2 == [s1 EXCEPT !.cfg.Backends[i].ForwardRateLimit = IF @ = 0 THEN 5 ELSE @]
  IN  IF Len(be.ServerNames) = 0
      THEN [st EXCEPT !.err = BackendErr(i, "ServerNames: backend must have at least one server name")]
      ELSE IF AddressesError(be) # ""
      THEN [st EXCEPT !.err = BackendErr(i, AddressesError(be))]
      ELSE IF be.BWLimit # "" /\ be.BWLimit \notin st.bwLimits
      THEN [st EXCEPT !.err = BackendErr(i, "BWLimit: undefined name")]
      ELSE IF ~be.SSO.nil /\ be.SSO.v \notin st.identityProviders
      THEN [st EXCEPT !.err = BackendErr(i, "SSO.Provider: unknown provider")]
      ELSE IF ver.err # ""
      THEN [s2 EXCEPT !.err = BackendErr(i, "ProxyProtocolVersion")]
      ELSE IF Len(be.PathOverrides) > 0 /\ be.Mode \notin {ModeHTTP, ModeHTTPS}
      THEN [s2 EXCEPT !.cfg.Backends[i].proxyProtocolVersion = ver.v,
                      !.err = BackendErr(i, "PathOverrides")]
      ELSE OverrideLoop([s2 EXCEPT !.cfg.Backends[i].proxyProtocolVersion = ver.v], i, 1)

\* The last loop over the backends, from backend i on.
RECURSIVE BackendLoop(_, _)
BackendLoop(st, i) ==
  IF st.err # "" \/ i > Len(st.cfg.Backends) THEN st
  ELSE BackendLoop(CheckBackend(st, i), i + 1)

\* hostAndPath on the endpoints of the model: the host of the URL, or an
\* error.
hostAndPath(endpoint) ==
  CASE endpoint = "https://a.test/ca" -> [host |-> "a.test", err |-> FALSE]
    [] endpoint = "https://b.test/ca" -> [host |-> "b.test", err |-> FALSE]
    [] endpoint = "https://x.test/ca" -> [host |-> "x.test", err |-> FALSE]
    [] OTHER -> [host |-> "", err |-> TRUE]

\* A variant of the test on the backend of a PKI endpoint: any backend of
\* that server name will do.
EndpointModeErrorNever(mode) == FALSE

\* The test on the backend of a PKI endpoint: its mode, in upper case, must
\* be LOCAL or CONSOLE.
EndpointModeError(mode) == ToUpper(mode) \notin {ModeLocal, ModeConsole}

\* for i, p := range cfg.PKI, from i on: the names must be new; the host of
\* an endpoint must be a server name, and the first backend of that name
\* must be in mode LOCAL or CONSOLE.
RECURSIVE PKILoop(_, _)
PKILoop(st, i) ==
  IF st.err # "" \/ i > Len(st.cfg.PKI) THEN st
  ELSE LET pki == st.cfg.PKI[i]
           head == "pki[" \o Itoa(i - 1) \o "]."
           hp == hostAndPath(pki.Endpoint)
           s1 == [st EXCEPT !.pkis = @ \cup {pki.Name}]
       IN  IF pki.Name \in st.pkis
           THEN [st EXCEPT !.err = head \o "Name: duplicate name"]
           ELSE IF pki.Endpoint = "" THEN PKILoop(s1, i + 1)
           ELSE IF hp.err
           THEN [s1 EXCEPT !.err = head \o "Endpoint"]
           ELSE IF hp.host \notin DOMAIN st.serverNames
           THEN [s1 EXCEPT !.err = head \o "Endpoint: backend not found"]
           ELSE IF EndpointModeError(st.cfg.Backends[st.serverNames[hp.host]].Mode)
           THEN [s1 EXCEPT !.err = head \o "Endpoint: backend must have mode LOCAL or CONSOLE"]
           ELSE PKILoop(s1, i + 1)

\* for i, l := range cfg.BWLimits, from i on: the names must be new.
RECURSIVE BWLimitLoop(_, _)
BWLimitLoop(st, i) ==
  IF st.err # "" \/ i > Len(st.cfg.BWLimits) THEN st
  ELSE LET l == st.cfg.BWLimits[i]
       IN  IF l.Name \in st.bwLimits
           THEN [st EXCEPT !.err = "bwLimit[" \o Itoa(i - 1) \o "].Name: duplicate name"]
           ELSE BWLimitLoop([st EXCEPT !.bwLimits = @ \cup {l.Name}], i + 1)

\* cfg.Check() in a process where openFileLimit() returns limit: the
\* configuration as Check leaves it, and its error ("" when the
\* configuration is accepted).
CheckUnder(cfg, limit) ==
  LET st0 == [cfg |-> cfg, err |-> "", serverNames |-> <<>>, beKeys |-> {},
              identityProviders |-> {}, pkis |-> {}, bwLimits |-> {}]
      providers == PasskeyLoop(SAMLLoop(OIDCLoop(CheckDefaults(st0, limit), 1), 1), 1)
      names == NameLoop(ModeLoop(providers, 1), 1, 1)
  IN  BackendLoop(BWLimitLoop(PKILoop(names, 1), 1), 1)

Check(cfg) == CheckUnder(cfg, rlimit)

\* A backend as decoded from a file that gives it one server name and one
\* address and nothing else.
PlainBackend ==
  [ServerNames |-> <<"a.test">>, ALPNProtos |-> NilList, Mode |-> "",
   ClientAuth |-> FALSE, Addresses |-> <<"10.0.0.1:80">>,
   BackendProto |-> NilString, ProxyProtocolVersion |-> <<>>,
   proxyProtocolVersion |-> 0, PathOverrides |-> <<>>,
   BWLimit |-> "", SSO |-> NilString,
   ServerCloseEndsConnection |-> NilBool, ClientCloseEndsConnection |-> NilBool,
   HalfCloseTimeout |-> NilDuration, ForwardTimeout |-> 0, ForwardRateLimit |-> 0]

\* The configuration of a file that gives nothing, with QUIC enabled.
NoCheck ==
  [EnableQUIC |-> TRUE, Backends |-> <<>>, TLSAddr |-> "", MaxOpen |-> 0,
   OIDCProviders |-> <<>>, SAMLProviders |-> <<>>, PasskeyProviders |-> <<>>,
   PKI |-> <<>>, BWLimits |-> <<>>]

\* The configurations Check is applied to.
RawNames == {"a.test", "A.TEST", "b.test"}
\* The ALPN list and the mode of a backend as written: no list on a QUIC
\* backend, an empty list, and one protocol.
BackendInputs ==
  {[ALPNProtos |-> NilList, Mode |-> "quic"],
   [ALPNProtos |-> List(<<>>), Mode |-> ""],
   [ALPNProtos |-> List(<<"h2">>), Mode |-> "tls"],
   [ALPNProtos |-> List(<<"h3">>), Mode |-> "quic"]}

\* The backends with l server names.
BackendsWithNames(l) ==
  {[PlainBackend EXCEPT !.ServerNames = ns, !.ALPNProtos = b.ALPNProtos, !.Mode = b.Mode] :
     ns \in [1..l -> RawNames], b \in BackendInputs}

\* The number of server names of the backends bs.
RECURSIVE NumNames(_)
NumNames(bs) ==
  IF bs = <<>> THEN 0 ELSE Len(Head(bs).ServerNames) + NumNames(Tail(bs))

\* ReadConfig, dec.Decode(&cfg): one more backend of the file is decoded.
DecodeBackend(b) ==
  /\ checkErr = "decoding"
  /\ Len(cfgIn.Backends) < MaxBackends
  /\ NumNames(cfgIn.Backends) + Len(b.ServerNames) <= MaxNames
  /\ cfgIn' = [cfgIn EXCEPT !.Backends = Append(@, b)]
  /\ cfgOut' = cfgIn'
  /\ UNCHANGED <<checkErr, envVars, dials, proxyVars>>

\* ReadConfig, cfg.Check() on the configuration decoded.
DoCheck ==
  /\ checkErr = "decoding"
  /\ LET r == Check(cfgIn)
     IN  /\ cfgOut' = r.cfg
         /\ checkErr' = r.err
  /\ UNCHANGED <<cfgIn, envVars, dials, proxyVars>>

\* The fields of a backend as written in the files of SpecBackend.
ModeInputs ==
  {"", "Plaintext", "tls", "TlsPassthrough", "TLSPASSTHROUGH", "quic", "http",
   "https", "local", "Console", "bogus"}
ALPNInputs == {NilList, List(<<>>), List(<<"h2">>)}
BackendProtoInputs == {NilString, String(""), String("h2")}
AddressInputs == {<<>>, <<"10.0.0.1:80">>}
ServerNameInputs == {<<>>, <<"a.test">>, <<"A.TEST">>}
VersionInputs ==
  {<<>>, <<"v", "1">>, <<"v", "2">>, <<"v", "3">>, <<"v">>, <<"2">>,
   <<"v", "-", "1">>, <<"v", "1", "2", "8">>, <<"v", "x">>}
PathsInputs ==
  {<<>>, << <<"/", "a">> >>, << <<"a">> >>, << <<"/", "a">>, <<>> >>}
OverrideInputs ==
  {<<>>} \cup
  {<<[Paths |-> ps, Mode |-> m, ProxyProtocolVersion |-> v, proxyProtocolVersion |-> 0,
      ForwardTimeout |-> t]>> :
     ps \in PathsInputs, m \in {"", "https", "tls"},
     v \in {<<>>, <<"v", "2">>, <<"v", "3">>}, t \in {0, 10}}

\* The backend of the files of SpecBackend that comes before the one under
\* test: valid, and of another server name.
OtherBackend == [PlainBackend EXCEPT !.ServerNames = <<"b.test">>]

\* ReadConfig, dec.Decode(&cfg): the file starts with the backend
\* OtherBackend.
DecodeOther ==
  /\ checkErr = "decoding"
  /\ cfgIn.Backends = <<>>
  /\ cfgIn' = [cfgIn EXCEPT !.Backends = <<OtherBackend>>]
  /\ cfgOut' = cfgIn'
  /\ UNCHANGED <<checkErr, envVars, dials, proxyVars>>

\* ReadConfig, dec.Decode(&cfg): the last backend of the file, b, is decoded.
DecodeLast(b) ==
  /\ checkErr = "decoding"
  /\ \A i \in DOMAIN cfgIn.Backends : cfgIn.Backends[i] = OtherBackend
  /\ cfgIn' = [cfgIn EXCEPT !.Backends = Append(@, b)]
  /\ cfgOut' = cfgIn'
  /\ checkErr' = "decoded"
  /\ UNCHANGED <<envVars, dials, proxyVars>>

\* The last backend gives its mode, client authentication, ALPN list,
\* BackendProto, addresses and server names.
DecodeModeFields ==
  /\ checkErr = "decoding"
  /\ rlimit = PlainLimit
  /\ \E m \in ModeInputs, ca \in BOOLEAN, al \in ALPNInputs, bp \in BackendProtoInputs,
        ad \in AddressInputs, sn \in ServerNameInputs :
       DecodeLast([PlainBackend EXCEPT !.Mode = m, !.ClientAuth = ca, !.ALPNProtos = al,
                                       !.BackendProto = bp, !.Addresses = ad,
                                       !.ServerNames = sn])

\* The last backend gives its mode, addresses, ProxyProtocolVersion and path
\* overrides.
DecodeForwardFields ==
  /\ checkErr = "decoding"
  /\ rlimit = PlainLimit
  /\ \E m \in ModeInputs, ad \in AddressInputs, v \in VersionInputs, po \in OverrideInputs :
       DecodeLast([PlainBackend EXCEPT !.Mode = m, !.Addresses = ad,
                                       !.ProxyProtocolVersion = v, !.PathOverrides = po])

\* ReadConfig, dec.Decode(&cfg): the rest of the file, cfg, is decoded; it
\* ends with the backend b.
DecodeRest(cfg, b) ==
  /\ checkErr = "decoding"
  /\ \A i \in DOMAIN cfgIn.Backends : cfgIn.Backends[i] = OtherBackend
  /\ cfgIn' = [cfg EXCEPT !.EnableQUIC = cfgIn.EnableQUIC,
                          !.Backends = Append(cfgIn.Backends, b)]
  /\ cfgOut' = cfgIn'
  /\ checkErr' = "decoded"
  /\ UNCHANGED <<envVars, dials, proxyVars>>

\* The file gives MaxOpen and TLSAddr, or leaves them out.
MaxOpenInputs == {0, 1, 2, 100, -1}
DecodeLimits ==
  /\ checkErr = "decoding"
  /\ \E m \in MaxOpenInputs, a \in {"", ":443"} :
       DecodeRest([NoCheck EXCEPT !.MaxOpen = m, !.TLSAddr = a], PlainBackend)

\* The identity providers of the files: an OIDC provider, a SAML provider,
\* and passkey providers that name one of them, themselves, one another or
\* nothing.
Passkey(name, idp) == [Name |-> name, IdentityProvider |-> idp, Endpoint |-> "https://a.test/pk"]
PasskeyInputs ==
  {<<>>, <<Passkey("pk", "idp")>>, <<Passkey("pk", "saml")>>, <<Passkey("pk", "pk")>>,
   <<Passkey("pk", "")>>, <<Passkey("idp", "idp")>>,
   <<Passkey("pk", "pk2"), Passkey("pk2", "idp")>>,
   <<Passkey("pk2", "idp"), Passkey("pk", "pk2")>>,
   <<[Passkey("pk", "idp") EXCEPT !.Endpoint = ""]>>}
SSOInputs ==
  {NilString, String("idp"), String("saml"), String("pk"), String("pk2"), String("")}

\* The file defines identity providers, and its last backend may have an
\* SSO.
DecodeProviders ==
  /\ checkErr = "decoding"
  /\ rlimit = PlainLimit
  /\ \E oidc \in {<<>>, <<[Name |-> "idp"]>>},
        saml \in {<<>>, <<[Name |-> "saml"]>>, <<[Name |-> "idp"]>>},
        pk \in PasskeyInputs, sso \in SSOInputs :
       DecodeRest([NoCheck EXCEPT !.OIDCProviders = oidc, !.SAMLProviders = saml,
                                  !.PasskeyProviders = pk],
                  [PlainBackend EXCEPT !.SSO = sso])

\* The bandwidth groups and the PKIs of the files.
BWLimitsInputs ==
  {<<>>, <<[Name |-> "g"]>>, <<[Name |-> "g"], [Name |-> "h"]>>,
   <<[Name |-> "g"], [Name |-> "g"]>>}
PKIInputs ==
  {<<>>, <<[Name |-> "ca", Endpoint |-> ""]>>,
   <<[Name |-> "ca", Endpoint |-> "https://a.test/ca"]>>,
   <<[Name |-> "ca", Endpoint |-> "https://b.test/ca"]>>,
   <<[Name |-> "ca", Endpoint |-> "https://x.test/ca"]>>,
   <<[Name |-> "ca", Endpoint |-> "::"]>>,
   <<[Name |-> "ca", Endpoint |-> "https://a.test/ca"], [Name |-> "ca", Endpoint |-> ""]>>,
   <<[Name |-> "ca", Endpoint |-> ""], [Name |-> "cb", Endpoint |-> "https://b.test/ca"]>>}

\* The file defines bandwidth groups and PKIs, and an OIDC provider or
\* none; its last backend gives its mode, addresses, server name, ALPN list,
\* bandwidth group and SSO.
DecodeReferences ==
  /\ checkErr = "decoding"
  /\ rlimit = PlainLimit
  /\ \E bw \in BWLimitsInputs, pki \in PKIInputs, l \in {"", "g", "h"},
        m \in {"", "tcp", "http", "local", "Console"}, ad \in AddressInputs,
        sn \in {<<"a.test">>, <<"b.test">>}, al \in {NilList, List(<<"h3">>)},
        oidc \in {<<>>, <<[Name |-> "idp"]>>}, sso \in {NilString, String("idp")} :
       DecodeRest([NoCheck EXCEPT !.BWLimits = bw, !.PKI = pki, !.OIDCProviders = oidc],
                  [PlainBackend EXCEPT !.BWLimit = l, !.Mode = m, !.Addresses = ad,
                                       !.ServerNames = sn, !.ALPNProtos = al,
                                       !.SSO = sso])

\* The values of the fields of a backend for half-closed connections and
\* for forwarding (in seconds).
BoolInputs == {NilBool, Bool(TRUE), Bool(FALSE)}
DurationInputs == {NilDuration, Duration(0), Duration(120)}

\* The last backend gives its mode, addresses and half-close fields, its
\* ForwardTimeout and its ForwardRateLimit.
DecodeHalfClose ==
  /\ checkErr = "decoding"
  /\ rlimit = PlainLimit
  /\ \E m \in ModeInputs, ad \in AddressInputs, sc \in BoolInputs, cc \in BoolInputs,
        hc \in DurationInputs, ft \in {0, 10}, fr \in {0, 7} :
       DecodeRest(NoCheck,
                  [PlainBackend EXCEPT !.Mode = m, !.Addresses = ad,
                                       !.ServerCloseEndsConnection = sc,
                                       !.ClientCloseEndsConnection = cc,
                                       !.HalfCloseTimeout = hc,
                                       !.ForwardTimeout = ft, !.ForwardRateLimit = fr])

\* ReadConfig, cfg.Check() on the configuration of SpecBackend.
CheckDecoded ==
  /\ checkErr = "decoded"
  /\ LET r == Check(cfgIn)
     IN  /\ cfgOut' = r.cfg
         /\ checkErr' = r.err
  /\ UNCHANGED <<cfgIn, envVars, dials, proxyVars>>

\* cfg.Check() once more, on the configuration a first Check accepted and
\* left.
CheckAgain ==
  /\ checkErr = ""
  /\ LET r == Check(cfgOut)
     IN  /\ cfgIn' = cfgOut
         /\ cfgOut' = r.cfg
         /\ checkErr' = r.err
  /\ UNCHANGED <<envVars, dials, proxyVars>>

\* --------------------------------------------------------------- UpdateECH
\*
\* The value of an HTTPS record is a sequence of tokens: " " is one space,
\* "ech=" the four characters that open an ech parameter, a quoted config
\* list ("\"X\"") or "a" a run of other characters without a space.

\* "\"" + configList + "\""
Quote(cl) == "\"" \o cl \o "\""

\* The number of spaces, and of tokens other than a space, s starts with.
RECURSIVE LeadSpaces(_)
LeadSpaces(s) == IF s # <<>> /\ Head(s) = " " THEN 1 + LeadSpaces(Tail(s)) ELSE 0
RECURSIVE LeadNonSpaces(_)
LeadNonSpaces(s) == IF s # <<>> /\ Head(s) # " " THEN 1 + LeadNonSpaces(Tail(s)) ELSE 0
Drop(s, n) == SubSeq(s, n + 1, Len(s))

\* A variant of the replacement: the spaces before an ech parameter are
\* left in the value.
RECURSIVE ReplaceAllKeepSpaces(_)
ReplaceAllKeepSpaces(s) ==
  IF s = <<>> THEN <<>>
  ELSE IF Head(s) = "ech="
  THEN ReplaceAllKeepSpaces(Drop(Tail(s), LeadNonSpaces(Tail(s))))
  ELSE <<Head(s)>> \o ReplaceAllKeepSpaces(Tail(s))

\* re.ReplaceAllString(s, "") for re = ` *ech=[^ ]*`: every match, taken
\* from the left, of a run of spaces, "ech=" and the characters up to the
\* next space is removed.
RECURSIVE ReplaceAll(_)
ReplaceAll(s) ==
  IF s = <<>> THEN <<>>
  ELSE LET k == LeadSpaces(s)
           r == Drop(s, k)
       IN  IF r # <<>> /\ Head(r) = "ech="
           THEN ReplaceAll(Drop(Tail(r), LeadNonSpaces(Tail(r))))
           ELSE IF k > 0 THEN SubSeq(s, 1, k) \o ReplaceAll(r)
           ELSE <<Head(s)>> \o ReplaceAll(Tail(s))

\* value := re.ReplaceAllString(v.Data.Value, "") + ` ech="` + configList + `"`
NewValue(v, cl) == ReplaceAll(v) \o <<" ", "ech=", Quote(cl)>>

\* The zones and the HTTPS records of the DNS provider, and the values the
\* records have before the first call.
Zones == {"z1", "z2"}
ZoneNames == {<<"z1", "a">>, <<"z1", "b">>, <<"z2", "a">>}
ValueInputs ==
  {<<"a">>,
   <<"a", " ", "ech=", Quote("X")>>,
   <<"a", " ", "ech=", Quote("Y")>>,
   <<"ech=", Quote("X")>>,
   <<"a", " ", " ", "ech=", Quote("X")>>,
   <<"ech=", Quote("Y"), " ", "a">>,
   <<"ech=", Quote("Y"), " ", "ech=", Quote("X")>>,
   <<"a", "ech=", Quote("X")>>,
   <<>>}
DNSInputs ==
  {[zn \in ZoneNames |->
      IF zn = <<"z1", "a">> THEN v1 ELSE IF zn = <<"z1", "b">> THEN v2 ELSE v3] :
     v1 \in ValueInputs,
     v2 \in {<<"a">>, <<"a", " ", "ech=", Quote("X")>>, <<"ech=", Quote("Y"), " ", "a">>},
     v3 \in {<<"a">>, <<"a", " ", "ech=", Quote("X")>>, <<"ech=", Quote("X")>>}}

\* The records argument of the calls: one zone, two zones, one zone in two
\* targets, a name given twice, a name without a record, a zone met again
\* after another.
TargetsInputs ==
  {<<[Zone |-> "z1", Names |-> <<"a">>]>>,
   <<[Zone |-> "z1", Names |-> <<"a", "b">>], [Zone |-> "z2", Names |-> <<"a">>]>>,
   <<[Zone |-> "z1", Names |-> <<"a">>], [Zone |-> "z1", Names |-> <<"b">>]>>,
   <<[Zone |-> "z1", Names |-> <<"a", "a">>]>>,
   <<[Zone |-> "z1", Names |-> <<"c", "a">>]>>,
   <<[Zone |-> "z2", Names |-> <<"a">>], [Zone |-> "z1", Names |-> <<"a">>],
     [Zone |-> "z2", Names |-> <<"a">>]>>}

\* The provider with the records dns, before the first call.
Provider(dns) == [pc |-> "idle", dns |-> dns]

\* UpdateECH(ctx, records, configList, logger) is called: zones and data are
\* empty.  run is 1 for the first call and 2 for the second; fetched counts
\* the getZoneData calls of this run per zone and patched the update
\* requests of each run; clean is whether every request of the first run
\* succeeded.
Call(dns, records, cl, run, patched, clean) ==
  [pc |-> "target", dns |-> dns, records |-> records, configList |-> cl,
   i |-> 1, j |-> 1, zones |-> {}, data |-> <<>>, run |-> run,
   fetched |-> [z \in Zones |-> 0], patched |-> patched, clean |-> clean]

UpdateECH(records, cl) ==
  /\ ech.pc = "idle"
  /\ ech' = Call(ech.dns, records, cl, 1, [r \in {1, 2} |-> 0], TRUE)
  /\ UNCHANGED <<cfgIn, cfgOut, checkErr, rlimit, dials, proxyVars>>

\* The same call once more, after the first has returned.
UpdateECHAgain ==
  /\ ech.pc = "done"
  /\ ech.run = 1
  /\ ech' = Call(ech.dns, ech.records, ech.configList, 2, ech.patched, ech.clean)
  /\ UNCHANGED <<cfgIn, cfgOut, checkErr, rlimit, dials, proxyVars>>

\* The records of zone z as getZoneData stores them in data.
ZoneData(dns, z) ==
  [zn \in {x \in ZoneNames : x[1] = z} |-> dns[zn]]

\* for _, r := range records, the head of the body: the data of a zone not
\* seen in this call is fetched, ok being whether getZoneData succeeds; on
\* an error the target is skipped.
ZoneStep(ok) ==
  /\ ech.pc = "target"
  /\ ech.i <= Len(ech.records)
  /\ LET z == ech.records[ech.i].Zone
     IN  IF z \in ech.zones
         THEN ok /\ ech' = [ech EXCEPT !.pc = "names", !.j = 1]
         ELSE LET e1 == [ech EXCEPT !.zones = @ \cup {z}, !.fetched[z] = @ + 1]
              IN  ech' = IF ok
                         THEN [e1 EXCEPT !.data = ZoneData(ech.dns, z) @@ @,
                                         !.pc = "names", !.j = 1]
                         ELSE [e1 EXCEPT !.i = @ + 1,
                                         !.clean = @ /\ ech.run # 1]
  /\ UNCHANGED <<cfgIn, cfgOut, checkErr, rlimit, dials, proxyVars>>

\* for _, name := range r.Names, the body: a name without a record is
\* skipped, and so is a record whose value is the new value; the others are
\* sent to updateRecord, ok being whether it succeeds (the provider then
\* holds the value sent).
NameStep(ok) ==
  /\ ech.pc = "names"
  /\ ech.j <= Len(ech.records[ech.i].Names)
  /\ LET zn == <<ech.records[ech.i].Zone, ech.records[ech.i].Names[ech.j]>>
         e1 == [ech EXCEPT !.j = @ + 1]
     IN  IF zn \notin DOMAIN ech.data
         THEN ok /\ ech' = e1
         ELSE LET value == NewValue(ech.data[zn], ech.configList)
              IN  IF value = ech.data[zn]
                  THEN ok /\ ech' = e1
                  ELSE ech' = [e1 EXCEPT !.patched[ech.run] = @ + 1,
                                         !.dns[zn] = IF ok THEN value ELSE @,
                                         !.clean = @ /\ (ok \/ ech.run # 1)]
  /\ UNCHANGED <<cfgIn, cfgOut, checkErr, rlimit, dials, proxyVars>>

\* The names of a target are done: the next target.
NextTarget ==
  /\ ech.pc = "names"
  /\ ech.j > Len(ech.records[ech.i].Names)
  /\ ech' = [ech EXCEPT !.pc = "target", !.i = @ + 1]
  /\ UNCHANGED <<cfgIn, cfgOut, checkErr, rlimit, dials, proxyVars>>

\* The targets are done: UpdateECH returns.
UpdateECHReturn ==
  /\ ech.pc = "target"
  /\ ech.i > Len(ech.records)
  /\ ech' = [ech EXCEPT !.pc = "done"]
  /\ UNCHANGED <<cfgIn, cfgOut, checkErr, rlimit, dials, proxyVars>>

\* --------------------------------------------------------- specifications

\* No dial attempt on any backend.
NoDials == [b \in BackendIds |-> 0]

\* No call of UpdateECH.
NoRun == [pc |-> "none"]

\* The state before New: no proxy, no handler.  scenarios is the set of
\* upstream reachability scenarios the specification explores.
InitProxy(scenarios) ==
  /\ proc = "init"
  /\ pcfg = NoConfig
  /\ mapping = EmptyMapping
  /\ tlsConfig = [b \in BackendIds |-> "nil"]
  /\ numOpen = 0
  /\ next = [b \in BackendIds |-> 0]
  /\ reach \in scenarios
  /\ conn = [c \in Conns |-> IdleConn]
  /\ overlapped = [b \in BackendIds |-> FALSE]
  /\ fullClose = FALSE
  /\ ret = ""
  /\ life = NotStarted
  /\ cfgIn = NoCheck /\ cfgOut = NoCheck /\ checkErr = "none"
  /\ rlimit = PlainLimit /\ dials = NoDials /\ ech = NoRun

AllUp == AddrIdx(NumAddr)
AllDown == {}

Handler(c) ==
  \/ Accept(c)
  \/ Admit(c)
  \/ \E s \in ClientSNIs, crt \in BOOLEAN, ok \in BOOLEAN : Handshake(c, s, crt, ok)
  \/ Resolve(c)
  \/ DialAttempt(c)
  \/ StartForward(c)
  \/ \E how \in {"eof", "err"} : ForwardExtToInt(c, how)
  \/ \E how \in {"eof", "err"} : ForwardIntToExt(c, how)
  \/ \E dir \in {"e2i", "i2e"} : CopyBytes(c, dir)
  \/ ForwardJoin(c)
  \/ Teardown(c)

\* Spec: two connections and Reconfigure; every upstream up, or every
\* upstream down.
Init == InitProxy({AllUp, AllDown})

Next ==
  \/ \E k \in ReconfInputs : New(k)
  \/ \E bound \in BOOLEAN : Start(bound)
  \/ \E k \in ReconfInputs : Reconfigure(k)
  \/ \E c \in ConnsRe : Handler(c)

Spec == Init /\ [][Next]_vars

\* SpecAdm: more connections than MaxOpen, the configuration fixed.
InitAdm == InitProxy({AllUp, AllDown})

NextAdm ==
  \/ New("adm")
  \/ \E bound \in BOOLEAN : Start(bound)
  \/ \E c \in Conns : Handler(c)

SpecAdm == InitAdm /\ [][NextAdm]_vars

\* SpecDial: two connections dialing under a fixed configuration, every
\* combination of reachable and unreachable upstream addresses.
InitDial == InitProxy(SUBSET AddrIdx(NumAddr))

NextDial ==
  \/ New("multi")
  \/ \E bound \in BOOLEAN : Start(bound)
  \/ \E c \in ConnsRe : Handler(c)

SpecDial == InitDial /\ [][NextDial]_vars

\* SpecRe: one connection under the configuration multi, while the
\* configuration file is read again and Reconfigure is called with it.
InitRe == InitProxy({AllUp})

NextRe ==
  \/ New("multi")
  \/ \E bound \in BOOLEAN : Start(bound)
  \/ \E k \in RereadInputs : Reconfigure(k)
  \/ Handler(1)

SpecRe == InitRe /\ [][NextRe]_vars

\* SpecFwd: one connection and the clock of its read deadlines.
InitFwd == InitProxy({AllUp})

NextFwd ==
  \/ New("two")
  \/ \E bound \in BOOLEAN : Start(bound)
  \/ Handler(1)
  \/ Tick(1)

SpecFwd == InitFwd /\ [][NextFwd]_vars

\* SpecStop: one connection, the clock of its read deadlines, and the end of
\* the proxy by Stop or by the cancellation of the context passed to Start.
InitStop == InitProxy({AllUp})

NextStop ==
  \/ New("two")
  \/ \E bound \in BOOLEAN : Start(bound)
  \/ Cancel
  \/ Stop
  \/ StopClear
  \/ \E seen \in {"nil", "set"} : WatcherCancel(seen)
  \/ WatcherClose
  \/ AcceptError
  \/ AcceptContinue
  \/ Handler(1)
  \/ Tick(1)

\* The steps of a handler that depend on the proxy alone, or that a timeout
\* of the proxy forces (the handshake's minute, the dial timeout): every
\* step but the accept and the copies.
HandlerProgress(c) ==
  \/ Admit(c)
  \/ \E s \in ClientSNIs, crt \in BOOLEAN, ok \in BOOLEAN : Handshake(c, s, crt, ok)
  \/ Resolve(c)
  \/ DialAttempt(c)
  \/ StartForward(c)
  \/ ForwardJoin(c)
  \/ Teardown(c)

\* A copy returns the error of a read that cannot succeed: its source is
\* closed, or its read deadline has passed.
CopyFails(c) ==
  \E dir \in {"e2i", "i2e"} :
    /\ ~In(conn[c], dir).rd \/ conn[c].idle[dir] = ReadDeadline
    /\ CopyReturn(c, dir, "err")

\* Every goroutine of the proxy is scheduled, and time passes.  What the
\* peers do (send bytes, close, reset) is under no fairness.
FairStop ==
  /\ WF_vars(StopClear)
  /\ WF_vars(\E seen \in {"nil", "set"} : WatcherCancel(seen))
  /\ WF_vars(WatcherClose)
  /\ WF_vars(AcceptError \/ AcceptContinue)
  /\ WF_vars(HandlerProgress(1))
  /\ WF_vars(CopyFails(1))
  /\ WF_vars(Tick(1))

SpecStop == InitStop /\ [][NextStop]_vars /\ FairStop

\* SpecFwdFair: SpecFwd with the handler of the connection scheduled.
FairFwd ==
  /\ WF_vars(HandlerProgress(1))
  /\ WF_vars(CopyFails(1))

SpecFwdFair == InitFwd /\ [][NextFwd]_vars /\ FairFwd

\* SpecCheck: ReadConfig on every configuration of at most MaxBackends
\* backends and MaxNames server names.
InitCheck ==
  /\ proc = "init"
  /\ pcfg = NoConfig
  /\ mapping = EmptyMapping
  /\ tlsConfig = [b \in BackendIds |-> "nil"]
  /\ numOpen = 0
  /\ next = [b \in BackendIds |-> 0]
  /\ reach = AllDown
  /\ conn = [c \in Conns |-> IdleConn]
  /\ overlapped = [b \in BackendIds |-> FALSE]
  /\ fullClose = FALSE
  /\ ret = ""
  /\ life = NotStarted
  /\ cfgIn = NoCheck
  /\ cfgOut = cfgIn
  /\ checkErr = "decoding"
  /\ rlimit = PlainLimit /\ dials = NoDials /\ ech = NoRun

NextCheck ==
  \/ \E l \in 0..MaxNames : \E b \in BackendsWithNames(l) : DecodeBackend(b)
  \/ DoCheck

SpecCheck == InitCheck /\ [][NextCheck]_vars

\* SpecECH: UpdateECH is called on a provider with three HTTPS records, and
\* called again with the same arguments; every request may fail.
InitECH ==
  /\ proc = "init"
  /\ pcfg = NoConfig
  /\ mapping = EmptyMapping
  /\ tlsConfig = [b \in BackendIds |-> "nil"]
  /\ numOpen = 0
  /\ next = [b \in BackendIds |-> 0]
  /\ reach = AllDown
  /\ conn = [c \in Conns |-> IdleConn]
  /\ overlapped = [b \in BackendIds |-> FALSE]
  /\ fullClose = FALSE
  /\ ret = ""
  /\ life = NotStarted
  /\ cfgIn = NoCheck /\ cfgOut = NoCheck /\ checkErr = "none"
  /\ rlimit = PlainLimit /\ dials = NoDials
  /\ ech \in {Provider(dns) : dns \in DNSInputs}

NextECH ==
  \/ \E records \in TargetsInputs : UpdateECH(records, "X")
  \/ \E ok \in BOOLEAN : ZoneStep(ok)
  \/ \E ok \in BOOLEAN : NameStep(ok)
  \/ NextTarget
  \/ UpdateECHReturn
  \/ UpdateECHAgain

SpecECH == InitECH /\ [][NextECH]_vars

\* SpecBackend: ReadConfig on files of one or two backends, the last of
\* which takes its fields from the input sets above, with QUIC enabled or
\* not.
InitBackend ==
  /\ proc = "init"
  /\ pcfg = NoConfig
  /\ mapping = EmptyMapping
  /\ tlsConfig = [b \in BackendIds |-> "nil"]
  /\ numOpen = 0
  /\ next = [b \in BackendIds |-> 0]
  /\ reach = AllDown
  /\ conn = [c \in Conns |-> IdleConn]
  /\ overlapped = [b \in BackendIds |-> FALSE]
  /\ fullClose = FALSE
  /\ ret = ""
  /\ life = NotStarted
  /\ cfgIn \in {[NoCheck EXCEPT !.EnableQUIC = q] : q \in BOOLEAN}
  /\ cfgOut = cfgIn
  /\ checkErr = "decoding"
  /\ rlimit \in LimitInputs /\ dials = NoDials /\ ech = NoRun

NextBackend ==
  \/ DecodeOther
  \/ DecodeModeFields
  \/ DecodeForwardFields
  \/ DecodeLimits
  \/ DecodeProviders
  \/ DecodeReferences
  \/ DecodeHalfClose
  \/ CheckDecoded
  \/ CheckAgain

SpecBackend == InitBackend /\ [][NextBackend]_vars

\* ------------------------------------------------------------- properties

\* p.cfg.MaxOpen, 0 while no configuration is published.
MaxOpenNow == IF pcfg = NoConfig THEN 0 ELSE Configs[pcfg].MaxOpen

\* The admission test of connection c has run.
Tested(c) == conn[c].pc \notin {"idle", "admit"}
Rejected(c) == conn[c].exit = "rejected"
\* c passed the admission test and its handler has not exited.
Admitted(c) == Tested(c) /\ ~Rejected(c)
AdmittedConns == {c \in DOMAIN conn : Admitted(c)}


\* The (server name, ALPN protocol) pairs the backends of cfg offer, each with
\* its place <<backend, name, proto>> in the configuration.
Offers(cfg) ==
  {[at |-> <<i, j, p>>,
    pair |-> <<idnaToASCII(cfg.Backends[i].ServerNames[j]), cfg.Backends[i].ALPNProtos.v[p]>>] :
     <<i, j, p>> \in UNION {{i} \X (DOMAIN cfg.Backends[i].ServerNames)
                                 \X (DOMAIN cfg.Backends[i].ALPNProtos.v) :
                             i \in DOMAIN cfg.Backends}}

\* The server names of backend i of cfg, in ASCII form.
NamesOf(cfg, i) ==
  {idnaToASCII(cfg.Backends[i].ServerNames[j]) : j \in DOMAIN cfg.Backends[i].ServerNames}

\* C1: in a configuration Check accepts no (server name, ALPN protocol) pair
\* is offered twice, by two backends or by one, the server names taken in
\* their ASCII form.
C1_UniquePairs ==
  checkErr = "" =>
    \A o1, o2 \in Offers(cfgOut) : o1.pair = o2.pair => o1.at = o2.at

\* C1 witness: an accepted configuration in which two backends have the same
\* server name, written in different letter case, and offer different
\* protocols on it.
C1_Witness ==
  /\ checkErr = ""
  /\ Len(cfgIn.Backends) = 2
  /\ \E j \in DOMAIN cfgIn.Backends[1].ServerNames, k \in DOMAIN cfgIn.Backends[2].ServerNames :
       /\ cfgIn.Backends[1].ServerNames[j] # cfgIn.Backends[2].ServerNames[k]
       /\ idnaToASCII(cfgIn.Backends[1].ServerNames[j]) = idnaToASCII(cfgIn.Backends[2].ServerNames[k])
  /\ cfgOut.Backends[1].ALPNProtos.v # <<>>
  /\ cfgOut.Backends[2].ALPNProtos.v # <<>>

\* C2: in a configuration Check accepts, the server names of a backend whose
\* ALPN list is empty appear on no other backend, wherever that backend
\* stands in the list.
C2_AgnosticNamesUnshared ==
  checkErr = "" =>
    \A i, k \in DOMAIN cfgOut.Backends :
      (i # k /\ cfgOut.Backends[i].ALPNProtos.v = <<>>) =>
        NamesOf(cfgOut, i) \cap NamesOf(cfgOut, k) = {}

\* C3: a connection is rejected exactly when the value its increment of
\* num_open returned exceeds max_open; a value less than or equal to max_open
\* is admitted.
C3_RejectedIffExceeds ==
  \A c \in DOMAIN conn :
    Tested(c) => (Rejected(c) <=> conn[c].n > MaxOpenNow)

C6_NumOpenCountsHandlers ==
  numOpen = Cardinality({c \in DOMAIN conn : conn[c].pc # "idle"})

\* C6 witness: a handler exiting on a dial failure while another exits on
\* the admission rejection.
C6_Witness ==
  \E c, d \in DOMAIN conn :
    /\ conn[c].pc = "teardown" /\ conn[c].exit = "dial"
    /\ conn[d].pc = "teardown" /\ conn[d].exit = "rejected"

\* C7: a connection accepted while num_open equals max_open is rejected, and
\* a connection accepted right after a connection closed from num_open =
\* max_open is admitted.
C7_FullRejectsClosedAdmits ==
  \A c \in DOMAIN conn :
    Tested(c) => /\ conn[c].prev = "full" => Rejected(c)
                 /\ conn[c].prev = "closed" => ~Rejected(c)

\* The sequence t holds each of the n addresses exactly once.
EachOnce(t, n) ==
  /\ Len(t) = n
  /\ \A a \in AddrIdx(n) : Cardinality({i \in DOMAIN t : t[i] = a}) = 1

\* The connections that have a backend resolved.
WithBackend == {c \in DOMAIN conn : conn[c].be # NoBackend}

\* C8, as stated: a dial call makes at most N attempts and, when it fails,
\* has attempted each of the N addresses exactly once, also under concurrent
\* calls.
C8_FailedCallTriedEachOnce ==
  \A c \in WithBackend :
    LET n == Backends[conn[c].be].nAddr
    IN  /\ Len(conn[c].tried) <= n
        /\ conn[c].exit = "dial" => EachOnce(conn[c].tried, n)

\* C8, amended: a dial call makes at most N attempts and exactly N when it
\* fails; these are each address exactly once when no other call attempted
\* an address of the backend between them.
C8_FailedCallTriedN ==
  \A c \in WithBackend :
    LET n == Backends[conn[c].be].nAddr
    IN  /\ Len(conn[c].tried) <= n
        /\ conn[c].exit = "dial" =>
             /\ Len(conn[c].tried) = n
             /\ conn[c].alone => EachOnce(conn[c].tried, n)

\* C8 witness: a call on the backend with NumAddr addresses has failed, no
\* other call having attempted an address in between, while another
\* connection holds the same backend.
C8_Witness ==
  \E c, d \in WithBackend :
    /\ c # d /\ conn[c].be = conn[d].be
    /\ Backends[conn[c].be].nAddr = NumAddr
    /\ conn[c].exit = "dial" /\ conn[c].alone

Last(t) == t[Len(t)]

\* The attempts t go down the list of n addresses, wrapping around.
InListOrder(t, n) == \A i \in 1..(Len(t) - 1) : t[i + 1] = (t[i] + 1) % n

\* The dial calls on backend b that have made an attempt.
Calls(b) == {c \in DOMAIN conn : conn[c].be = b /\ conn[c].tried # <<>>}

\* C9, on the states: as long as the dial calls on a backend ran one after
\* another, every call tries the addresses in list order and stops at the
\* first that connects; if only the last address is reachable, every call
\* connects after exactly N - 1 failed attempts, having started at the first
\* address, and leaves the cursor on the first address.
C9_State ==
  \A b \in BackendIds :
    ~overlapped[b] =>
      LET n == Backends[b].nAddr
      IN  /\ \A c \in Calls(b) :
               /\ InListOrder(conn[c].tried, n)
               /\ \A i \in 1..(Len(conn[c].tried) - 1) : conn[c].tried[i] \notin reach
               /\ conn[c].pc = "dialed" <=> Last(conn[c].tried) \in reach
          /\ reach = {n - 1} =>
               /\ \A c \in Calls(b) :
                    /\ conn[c].exit # "dial"
                    /\ conn[c].pc = "dialed" => conn[c].tried = [i \in 1..n |-> i - 1]
               /\ MidDial(b) = {} => next[b] = 0

\* C9, on the steps: every attempt is made at the address under the cursor
\* and leaves the cursor on the address that follows it, so that a call
\* starts at the address following the last one attempted.
C9_Step ==
  \A c \in DOMAIN conn :
    conn'[c].tried # conn[c].tried /\ conn'[c].tried # <<>> =>
      LET b == conn[c].be
          a == Last(conn'[c].tried)
      IN  /\ a = next[b]
          /\ next'[b] = (a + 1) % Backends[b].nAddr

\* C9: sequential dial calls rotate through the addresses.
C9_SequentialRotation == []C9_State /\ [][C9_Step]_vars

\* C9 witness: only the last address is reachable; a second call has just
\* connected after trying every address in order, the first call's
\* connection still forwarding, and no two calls interleaved.
C9_Witness ==
  /\ reach = {NumAddr - 1}
  /\ \E c, d \in WithBackend :
       /\ c # d /\ conn[c].be = conn[d].be
       /\ Backends[conn[c].be].nAddr = NumAddr
       /\ ~overlapped[conn[c].be]
       /\ conn[d].pc = "forward"
       /\ conn[c].pc = "dialed" /\ Len(conn[c].tried) = NumAddr

\* C10: the backend a connection is dialed to is the backend whose TLS
\* parameters its handshake applied, and if that backend requires client
\* authentication the handshake verified a client certificate.
C10_DialedBackendIsHandshakeBackend ==
  \A c \in DOMAIN conn :
    conn[c].pc \in {"dial", "dialed"} =>
      /\ conn[c].be = conn[c].hsBe
      /\ Backends[conn[c].be].ClientAuth => conn[c].cert

\* The Backend objects of configuration k.
BackendsOf(k) == {Configs[k].Backends[i] : i \in DOMAIN Configs[k].Backends}

\* The server names of Backend object b.
ServerNamesOf(b) == {Backends[b].ServerNames[j] : j \in DOMAIN Backends[b].ServerNames}

\* Configuration k has a backend with server name s.
Serves(k, s) == \E b \in BackendsOf(k) : s \in ServerNamesOf(b)

\* C11: a step that is not of connection c's own handler, a Reconfigure in
\* particular, leaves a connection that has dialed its upstream as it is; its
\* own steps keep the client, the backend and the upstream, and it leaves the
\* forwarding phase only to its own teardown, once both copies have returned.
C11_Step ==
  \A c \in DOMAIN conn :
    conn[c].pc \in {"dialed", "forward"} =>
      /\ (pcfg' # pcfg \/ mapping' # mapping \/ tlsConfig' # tlsConfig \/ ret' # ret)
           => conn'[c] = conn[c]
      /\ \/ /\ conn'[c].pc = "forward"
            /\ conn'[c].sni = conn[c].sni
            /\ conn'[c].be = conn[c].be
            /\ conn'[c].up = conn[c].up
         \/ /\ conn'[c].pc = "teardown"
            /\ conn[c].pc = "forward" /\ conn[c].e2i # "" /\ conn[c].i2e # ""
         \/ conn'[c] = conn[c]

C11_ReconfigureLeavesForwarding == [][C11_Step]_vars

\* C11 witness: a connection is forwarding to a backend that a Reconfigure
\* has since taken out of the mapping.
C11_Witness ==
  /\ ret = "published"
  /\ \E c \in DOMAIN conn :
       /\ conn[c].pc = "forward"
       /\ mapping[conn[c].sni] # conn[c].be

\* C12: the published mapping is at every moment the mapping of the published
\* configuration, whole: it holds a server name exactly when a backend of
\* that configuration has it, and maps it to that backend.  A lookup returns
\* what this mapping holds: a name the configuration lacks is not found.
C12_State ==
  pcfg # NoConfig =>
    \A s \in ClientSNIs :
      /\ mapping[s] # NoBackend <=> Serves(pcfg, s)
      /\ mapping[s] # NoBackend => mapping[s] \in BackendsOf(pcfg) /\ s \in ServerNamesOf(mapping[s])

C12_Step ==
  \A c \in DOMAIN conn :
    /\ (conn[c].pc = "resolve" /\ conn'[c].pc = "dial")
         => conn'[c].be \in BackendsOf(pcfg) /\ conn[c].sni \in ServerNamesOf(conn'[c].be)
    /\ (conn[c].pc = "resolve" /\ conn'[c].pc = "teardown")
         => ~Serves(pcfg, conn[c].sni)
    /\ (conn[c].pc = "hello" /\ conn'[c].pc = "resolve")
         => conn'[c].hsBe \in BackendsOf(pcfg) /\ conn'[c].sni \in ServerNamesOf(conn'[c].hsBe)

C12_LookupSeesPublishedMapping == []C12_State /\ [][C12_Step]_vars

\* C12 witness: after a Reconfigure that took b.test out, the lookup of a
\* connection that had completed its handshake on b.test finds nothing.
C12_Witness ==
  /\ ret = "published"
  /\ pcfg = "auth"
  /\ \E c \in DOMAIN conn : conn[c].exit = "sni" /\ conn[c].sni = "b.test"

\* C13: the step of a Reconfigure call that returns an error leaves the
\* published mapping and configuration, and the result of every lookup, as
\* they were.
C13_Step ==
  (\E k \in ReconfInputs : Reconfigure(k) /\ FirstBad(k) # 0) =>
    /\ mapping' = mapping
    /\ pcfg' = pcfg
    /\ \A s \in ClientSNIs : LookupBackend(s)' = LookupBackend(s)

C13_FailedReconfigureKeepsMapping ==
  [][C13_Step]_vars /\ [](ret = "err" => pcfg # "bad" /\ C12_State)

\* C13 witness: Reconfigure has returned an error on a started proxy, and a
\* handler's lookup has found its backend in the mapping that stayed.
C13_Witness ==
  /\ ret = "err"
  /\ pcfg = "two"
  /\ \E c \in DOMAIN conn : conn[c].pc = "resolve" /\ LookupBackend(conn[c].sni) = "B1"

\* Configurations k1 and k2 have the same content: the same MaxOpen and, in
\* the same order, backends with the same fields.
SameContent(k1, k2) ==
  /\ Configs[k1].MaxOpen = Configs[k2].MaxOpen
  /\ Len(Configs[k1].Backends) = Len(Configs[k2].Backends)
  /\ \A i \in DOMAIN Configs[k1].Backends :
       Backends[Configs[k1].Backends[i]] = Backends[Configs[k2].Backends[i]]

\* C14: the step of a Reconfigure call with a configuration of the same
\* content as the published one changes neither the mapping, nor the Backend
\* objects it points to, nor a cursor, and returns no error.
C14_Step ==
  \A k \in RereadInputs :
    (Reconfigure(k) /\ pcfg # NoConfig /\ SameContent(k, pcfg)) =>
      /\ mapping' = mapping
      /\ pcfg' = pcfg
      /\ next' = next
      /\ tlsConfig' = tlsConfig
      /\ ret' = "same"

C14_SameContentIsNoOp == [][C14_Step]_vars

\* C14 witness: the published configuration is multi, its cursor has moved,
\* and the last Reconfigure, called with other objects of the same content,
\* returned without a change: the mapping still points to the objects of
\* multi.
C14_Witness ==
  /\ ret = "same"
  /\ pcfg = "multi"
  /\ mapping["a.test"] = "M1"
  /\ next["M1"] # 0

\* C15: a connection whose server name the published mapping does not hold
\* at a lookup goes to its teardown from there; a handler that left by such a
\* lookup has dialed no upstream address and started no copy.
C15_State ==
  \A c \in DOMAIN conn :
    conn[c].exit \in {"unknown", "sni"} =>
      /\ conn[c].pc = "teardown"
      /\ conn[c].up = <<>>
      /\ conn[c].tried = <<>>
      /\ conn[c].e2i = "" /\ conn[c].i2e = ""

C15_Step ==
  \A c \in DOMAIN conn :
    /\ (conn[c].pc = "hello" /\ conn'[c].sni \in ClientSNIs /\ mapping[conn'[c].sni] = NoBackend)
         => conn'[c].pc = "teardown" /\ conn'[c].exit = "unknown"
    /\ (conn[c].pc = "resolve" /\ conn'[c] # conn[c] /\ mapping[conn[c].sni] = NoBackend)
         => conn'[c].pc = "teardown" /\ conn'[c].exit = "sni"
    /\ (conn[c].pc # "dial" /\ conn'[c].pc = "dial")
         => conn[c].pc = "resolve" /\ mapping[conn[c].sni] # NoBackend

C15_UnknownSNINeverDialed == []C15_State /\ [][C15_Step]_vars

\* C15 witness: a client has sent a server name of no backend and the
\* handler is at its teardown.
C15_Witness ==
  \E c \in DOMAIN conn :
    conn[c].pc = "teardown" /\ conn[c].exit = "unknown" /\ conn[c].sni = "x.test"

\* Server names a and b are equal apart from letter case.
EqualFold(a, b) ==
  LET lower(h) == CASE h = "A.TEST" -> "a.test" [] OTHER -> h
  IN  lower(a) = lower(b)

\* C16: a server name that a lookup does not find differs from every
\* configured server name by more than letter case.
C16_CaseInsensitiveLookup ==
  \A c \in DOMAIN conn :
    (pcfg # NoConfig /\ conn[c].exit = "unknown") =>
      \A b \in BackendsOf(pcfg) : \A n \in ServerNamesOf(b) : ~EqualFold(conn[c].sni, n)

\* p.ctx is done: Stop has called p.cancel(), or the context passed to Start
\* was cancelled.
Cancelled == life.ctx = "done"

\* C17: after the root context is cancelled or Stop is called, every live
\* handler, those forwarding included, eventually closes both endpoints and
\* exits: from then on a state is reached where no handler runs (the process
\* having ended counts).
C17_CancelEndsEveryHandler ==
  Cancelled ~> (proc = "crashed" \/ \A c \in DOMAIN conn : conn[c].pc = "idle")

\* C18: after Stop or the cancellation of the context passed to Start the
\* accept goroutine eventually terminates: it is no longer in its loop (the
\* process having ended counts).
C18_AcceptLoopTerminates ==
  Cancelled ~> (proc = "crashed" \/ life.loop \notin {"accept", "log"})

C20_HalfOpenClosedAfterIdlePeriod ==
  \A c \in DOMAIN conn :
    (conn[c].pc = "forward" /\ conn[c].i2e = "eof" /\ conn[c].e2i = "") =>
      conn[c].idle.e2i <= HalfCloseTimeout

\* C21: with serverCloseEndsConnection true, once the copy from the upstream
\* has ended with a clean end of stream the whole connection is closed: no
\* side of either endpoint is left open.
C21_ServerCloseClosesConnection ==
  \A c \in DOMAIN conn :
    (ServerCloseEndsConnection /\ conn[c].pc = "forward" /\ conn[c].i2e = "eof") =>
      conn[c].ext = Shut /\ conn[c].int = Shut

\* A copy of connection c has returned an error and the handler has not yet
\* returned from the forwarding.
CopyFailed(c) ==
  conn[c].pc = "forward" /\ (conn[c].e2i = "err" \/ conn[c].i2e = "err")

\* C22, the state: once a copy has failed, both endpoints are closed.
C22_State ==
  \A c \in DOMAIN conn : CopyFailed(c) => conn[c].ext = Shut /\ conn[c].int = Shut

\* C22, the steps: a copy that has returned is not started again, and after
\* a failure nothing more is copied: the only steps of the connection are
\* the passing of time, the return of the opposite copy with an error, and
\* the return of the handler.
C22_Step ==
  \A c \in DOMAIN conn :
    /\ \A dir \in {"e2i", "i2e"} :
         (conn[c].pc = "forward" /\ conn[c][dir] # "" /\ conn'[c].pc = "forward")
           => conn'[c][dir] = conn[c][dir]
    /\ (CopyFailed(c) /\ [conn'[c] EXCEPT !.idle = conn[c].idle] # conn[c])
         => \/ conn'[c].pc = "teardown" /\ conn'[c].exit = "end"
            \/ conn'[c].pc = "idle" /\ proc' = "crashed"
            \/ \E dir \in {"e2i", "i2e"} :
                 /\ conn[c][dir] = ""
                 /\ conn'[c] = [conn[c] EXCEPT ![dir] = "err", !.idle = conn'[c].idle]

\* C22: when the copy in either direction fails, both endpoints are closed,
\* the copy is never retried, the opposite copy ends too and the handler
\* exits.
C22_CopyErrorEndsConnection ==
  /\ []C22_State
  /\ [][C22_Step]_vars
  /\ \A c \in Conns : CopyFailed(c) ~> conn[c].pc = "idle"

\* C22 witness: the copies of both directions have returned an error and
\* the handler has returned from the forwarding.
C22_Witness ==
  \E c \in DOMAIN conn :
    /\ conn[c].pc = "teardown" /\ conn[c].exit = "end"
    /\ conn[c].e2i = "err" /\ conn[c].i2e = "err"

\* The order of the places of handleConnection: admission, handshake,
\* backend selection, dial, forwarding, teardown.
PhaseSteps ==
  {<<"idle", "admit">>, <<"admit", "hello">>, <<"admit", "teardown">>,
   <<"hello", "resolve">>, <<"hello", "teardown">>,
   <<"resolve", "dial">>, <<"resolve", "teardown">>,
   <<"dial", "dialed">>, <<"dial", "teardown">>,
   <<"dialed", "forward">>, <<"forward", "teardown">>, <<"teardown", "idle">>}

\* C23, the state: a handler that dials or forwards has completed a handshake
\* and resolved a backend; one that forwards, or is about to, holds a dialed
\* upstream connection; one rejected at admission has started no handshake
\* and no dial.
C23_State ==
  \A c \in DOMAIN conn :
    /\ conn[c].pc \in {"dial", "dialed", "forward"}
         => conn[c].sni # "" /\ conn[c].be # NoBackend
    /\ conn[c].pc \in {"dialed", "forward"} => conn[c].up # <<>>
    /\ conn[c].pc = "dial" => conn[c].up = <<>>
    /\ conn[c].exit = "rejected"
         => /\ conn[c].pc = "teardown"
            /\ conn[c].sni = "" /\ conn[c].hsBe = NoBackend /\ conn[c].be = NoBackend
            /\ conn[c].tried = <<>> /\ conn[c].up = <<>>

\* C23, the steps: a handler moves from place to place in the fixed order,
\* an upstream is dialed only at the dial, and bytes are copied and copies
\* end only during the forwarding.
C23_Step ==
  \A c \in DOMAIN conn :
    /\ conn'[c].pc # conn[c].pc => <<conn[c].pc, conn'[c].pc>> \in PhaseSteps
    /\ (conn'[c].up # conn[c].up /\ conn'[c].up # <<>>) => conn[c].pc = "dial"
    /\ (conn'[c].tried # conn[c].tried /\ conn'[c].tried # <<>>) => conn[c].pc = "dial"
    /\ (conn'[c].pc = "forward" /\
          (conn'[c].late # conn[c].late \/ conn'[c].idle # conn[c].idle
             \/ conn'[c].e2i # conn[c].e2i \/ conn'[c].i2e # conn[c].i2e))
         => conn[c].pc = "forward"

\* C23: each connection goes through admission, handshake, backend
\* selection, dial, forwarding and teardown in this order; nothing is dialed
\* before the handshake and the selection, nothing forwarded before the
\* dial, and a rejected connection starts no handshake and no dial.
C23_PhasesInOrder == []C23_State /\ [][C23_Step]_vars

\* C23 witness: one connection has gone through every phase and is at its
\* teardown while another, rejected at admission, is at its teardown too.
C23_Witness ==
  \E c, d \in DOMAIN conn :
    /\ conn[c].pc = "teardown" /\ conn[c].exit = "end" /\ conn[c].up # <<>>
    /\ conn[d].pc = "teardown" /\ conn[d].exit = "rejected"

\* C24, the state: a dial call that returned an error made as many attempts
\* as the backend has addresses, each on an address that does not accept
\* connections, and its handler holds no upstream connection and has
\* forwarded nothing; a handler past the dial holds a connection to an
\* address that accepts connections.
C24_State ==
  \A c \in DOMAIN conn :
    /\ conn[c].exit = "dial"
         => /\ conn[c].pc = "teardown"
            /\ Len(conn[c].tried) = Backends[conn[c].be].nAddr
            /\ \A i \in DOMAIN conn[c].tried : conn[c].tried[i] \notin reach
            /\ conn[c].up = <<>>
            /\ conn[c].ext = Shut /\ conn[c].int = Shut
            /\ conn[c].e2i = "" /\ conn[c].i2e = "" /\ ~conn[c].late
    /\ conn[c].pc \in {"dialed", "forward"} => conn[c].up[2] \in reach

\* C24, the steps: the handler leaves the dial for the teardown only with
\* the error of dial, and its next step closes the connection (the slot is
\* free again) and takes one off numOpen.
C24_Step ==
  \A c \in DOMAIN conn :
    /\ (conn[c].pc = "dial" /\ conn'[c].pc = "teardown") => conn'[c].exit = "dial"
    /\ (conn[c].exit = "dial" /\ conn'[c] # conn[c])
         => conn'[c] = IdleConn /\ numOpen' = numOpen - 1

\* C24: when every address of the backend fails to connect, dial returns an
\* error after the rotation; the handler then closes the client connection,
\* forwards nothing and releases its slot of numOpen.
C24_DialFailureReleases == []C24_State /\ [][C24_Step]_vars

\* C24 witness: on the backend of NumAddr addresses, none of which accepts
\* connections, a dial call has returned its error after NumAddr attempts.
C24_Witness ==
  \E c \in DOMAIN conn :
    /\ conn[c].pc = "teardown" /\ conn[c].exit = "dial"
    /\ Len(conn[c].tried) = NumAddr
    /\ reach = {}

\* ReadConfig has applied Check to the file: it returned the configuration
\* (Accepted) or the error.
Checked == checkErr \notin {"none", "decoding", "decoded"}
Accepted == checkErr = ""

\* The ways the files write the TLS passthrough mode.
PassthroughSpellings == {"tlspassthrough", "TlsPassthrough", "TLSPASSTHROUGH"}

\* C25: no configuration Check accepts has a backend that is in TLS
\* passthrough mode, however the file spells the mode, and has clientAuth
\* set; nor has the configuration Check returns.
C25_NoClientAuthInPassthrough ==
  Accepted =>
    \A i \in DOMAIN cfgIn.Backends :
      /\ ~(cfgIn.Backends[i].Mode \in PassthroughSpellings /\ cfgIn.Backends[i].ClientAuth)
      /\ ~(cfgOut.Backends[i].Mode = "TLSPASSTHROUGH" /\ cfgOut.Backends[i].ClientAuth)

\* C25 witness: a file whose second backend has clientAuth and the mode
\* written TlsPassthrough was refused for it.
C25_Witness ==
  /\ checkErr = "backend[1].ClientAuth"
  /\ cfgIn.Backends[2].Mode = "TlsPassthrough" /\ cfgIn.Backends[2].ClientAuth

\* C26: in every configuration Check accepts, every backend has a server
\* name, a backend in mode LOCAL or CONSOLE has no address, and a backend in
\* a mode other than HTTP, HTTPS, LOCAL and CONSOLE has an address.
C26_NamesAndAddresses ==
  Accepted =>
    \A i \in DOMAIN cfgOut.Backends :
      LET be == cfgOut.Backends[i]
      IN  /\ Len(be.ServerNames) >= 1
          /\ be.Mode \in {"LOCAL", "CONSOLE"} => Len(be.Addresses) = 0
          /\ be.Mode \notin {"HTTP", "HTTPS", "LOCAL", "CONSOLE"} => Len(be.Addresses) >= 1

\* C26 witness: an accepted configuration whose first backend is in mode
\* TCP with an address and whose last is in mode LOCAL without one.
C26_Witness ==
  /\ Accepted
  /\ Len(cfgOut.Backends) = 2
  /\ cfgOut.Backends[2].Mode = "LOCAL" /\ cfgOut.Backends[2].Addresses = <<>>
  /\ cfgOut.Backends[1].Mode = "TCP" /\ Len(cfgOut.Backends[1].Addresses) = 1

\* The version strings the PROXY protocol has.
ProxyVersions == {<<>>, <<"v", "1">>, <<"v", "2">>}

\* C27: Check accepts a proxyProtocolVersion, of a backend or of a path
\* override, only when it is empty, v1 or v2, and the version byte it stores
\* is 0, 1 or 2.
C27_ProxyProtocolVersionValid ==
  Accepted =>
    \A i \in DOMAIN cfgOut.Backends :
      LET be == cfgOut.Backends[i]
      IN  /\ be.ProxyProtocolVersion \in ProxyVersions
          /\ be.proxyProtocolVersion \in {0, 1, 2}
          /\ \A j \in DOMAIN be.PathOverrides :
               /\ be.PathOverrides[j].ProxyProtocolVersion \in ProxyVersions
               /\ be.PathOverrides[j].proxyProtocolVersion \in {0, 1, 2}

\* The eight modes.
EightModes == {"TCP", "TLS", "TLSPASSTHROUGH", "QUIC", "HTTP", "HTTPS", "LOCAL", "CONSOLE"}

\* What the modes the files write mean: the mode in upper case, TCP for the
\* empty mode and for PLAINTEXT, "invalid" for a word that is no mode.
ModeMeaning ==
  [m \in ModeInputs \cup EightModes \cup {"tcp"} |->
     CASE m \in EightModes -> m
       [] m = "" -> "TCP"
       [] m = "tcp" -> "TCP"
       [] m = "Plaintext" -> "TCP"
       [] m = "tls" -> "TLS"
       [] m = "TlsPassthrough" -> "TLSPASSTHROUGH"
       [] m = "TLSPASSTHROUGH" -> "TLSPASSTHROUGH"
       [] m = "quic" -> "QUIC"
       [] m = "http" -> "HTTP"
       [] m = "https" -> "HTTPS"
       [] m = "local" -> "LOCAL"
       [] m = "Console" -> "CONSOLE"
       [] OTHER -> "invalid"]

\* The error about the mode of the i-th backend, which Check numbers from 0.
ModeErrorOf(i) == IF i = 1 THEN "backend[0].Mode" ELSE "backend[1].Mode"

\* C28: after a successful Check the mode of every backend is one of the
\* eight modes, the one its input means (upper-cased; TCP for the empty mode
\* and PLAINTEXT); a file with a backend whose mode is no mode is rejected
\* with the error that names the index of that backend, and no other file
\* gets that error.
C28_ModeNormalised ==
  /\ Accepted =>
       \A i \in DOMAIN cfgOut.Backends :
         /\ cfgOut.Backends[i].Mode \in EightModes
         /\ cfgOut.Backends[i].Mode = ModeMeaning[cfgIn.Backends[i].Mode]
  /\ Checked =>
       \A i \in DOMAIN cfgIn.Backends :
         /\ ModeMeaning[cfgIn.Backends[i].Mode] = "invalid" => checkErr = ModeErrorOf(i)
         /\ checkErr = ModeErrorOf(i) => ModeMeaning[cfgIn.Backends[i].Mode] = "invalid"

\* C28 witness: a file whose second backend has the mode Plaintext was
\* accepted, and the backend is in mode TCP.
C28_Witness ==
  /\ Accepted
  /\ Len(cfgIn.Backends) = 2
  /\ cfgIn.Backends[2].Mode = "Plaintext" /\ cfgOut.Backends[2].Mode = "TCP"

\* C29: Check sets the ALPN list of a backend only when it is unset, to h3,
\* h2, http/1.1 when QUIC is enabled and the mode is HTTP, HTTPS, QUIC, LOCAL
\* or CONSOLE and to h2, http/1.1 otherwise; a list that is set, the empty
\* list included, is left as it is.
C29_ALPNDefaults ==
  Accepted =>
    \A i \in DOMAIN cfgOut.Backends :
      LET in == cfgIn.Backends[i]
          out == cfgOut.Backends[i]
          h3 == cfgIn.EnableQUIC /\ out.Mode \in {"HTTP", "HTTPS", "QUIC", "LOCAL", "CONSOLE"}
      IN  /\ ~in.ALPNProtos.nil => out.ALPNProtos = in.ALPNProtos
          /\ in.ALPNProtos.nil =>
               /\ ~out.ALPNProtos.nil
               /\ out.ALPNProtos.v = IF h3 THEN <<"h3", "h2", "http/1.1">>
                                      ELSE <<"h2", "http/1.1">>

\* C29 witness: with QUIC disabled, a backend in mode HTTPS without ALPN
\* list follows a backend that got the default list too; the HTTPS backend
\* got h2, http/1.1.
C29_Witness ==
  /\ Accepted
  /\ ~cfgIn.EnableQUIC
  /\ Len(cfgIn.Backends) = 2
  /\ cfgIn.Backends[2].ALPNProtos.nil /\ cfgOut.Backends[2].Mode = "HTTPS"
  /\ cfgOut.Backends[2].ALPNProtos = [nil |-> FALSE, v |-> <<"h2", "http/1.1">>]

\* C30: in every configuration Check accepts, backendProto and path
\* overrides are set only on backends in mode HTTP or HTTPS, and every path
\* override has a path, only paths that start with "/", and a mode, its own
\* or else the backend's, that is HTTP or HTTPS.
C30_HTTPOnlyFields ==
  Accepted =>
    \A i \in DOMAIN cfgOut.Backends :
      LET in == cfgIn.Backends[i]
          out == cfgOut.Backends[i]
      IN  /\ (~out.BackendProto.nil \/ Len(out.PathOverrides) > 0)
               => out.Mode \in {"HTTP", "HTTPS"}
          /\ \A j \in DOMAIN out.PathOverrides :
               LET po == out.PathOverrides[j]
                   own == in.PathOverrides[j].Mode
               IN  /\ Len(po.Paths) >= 1
                   /\ \A k \in DOMAIN po.Paths :
                        Len(po.Paths[k]) >= 1 /\ Head(po.Paths[k]) = "/"
                   /\ po.Mode \in {"HTTP", "HTTPS"}
                   /\ po.Mode = IF own = "" THEN out.Mode ELSE ModeMeaning[own]

\* C30 witness: an accepted backend in mode HTTP with a path override for
\* /a that names no mode of its own, and got HTTP.
C30_Witness ==
  /\ Accepted
  /\ \E i \in DOMAIN cfgOut.Backends :
       /\ cfgOut.Backends[i].Mode = "HTTP"
       /\ Len(cfgOut.Backends[i].PathOverrides) = 1
       /\ cfgIn.Backends[i].PathOverrides[1].Mode = ""
       /\ cfgOut.Backends[i].PathOverrides[1].Mode = "HTTP"
       /\ cfgOut.Backends[i].PathOverrides[1].Paths = << <<"/", "a">> >>

\* The names a sequence of named definitions defines.
NamesIn(defs) == {defs[i].Name : i \in DOMAIN defs}
\* The identity providers a configuration defines.
ProvidersOf(cfg) ==
  NamesIn(cfg.OIDCProviders) \cup NamesIn(cfg.SAMLProviders) \cup NamesIn(cfg.PasskeyProviders)
\* The backends of cfg that serve host in mode LOCAL or CONSOLE.
LocalBackends(cfg, host) ==
  {i \in DOMAIN cfg.Backends :
     /\ \E j \in DOMAIN cfg.Backends[i].ServerNames : cfg.Backends[i].ServerNames[j] = host
     /\ cfg.Backends[i].Mode \in {ModeLocal, ModeConsole}}

\* C31: in every configuration Check accepts, the BWLimit of a backend is
\* the name of a bandwidth group of the configuration, the provider of the
\* SSO of a backend is the name of one of its identity providers, and the
\* host of every PKI endpoint that is not empty is a server name of a
\* backend in mode LOCAL or CONSOLE.
C31_ReferencesDefined ==
  Accepted =>
    /\ \A i \in DOMAIN cfgOut.Backends :
         LET be == cfgOut.Backends[i]
         IN  /\ be.BWLimit # "" => be.BWLimit \in NamesIn(cfgOut.BWLimits)
             /\ ~be.SSO.nil => be.SSO.v \in ProvidersOf(cfgOut)
    /\ \A k \in DOMAIN cfgOut.PKI :
         cfgOut.PKI[k].Endpoint # "" =>
           /\ ~hostAndPath(cfgOut.PKI[k].Endpoint).err
           /\ LocalBackends(cfgOut, hostAndPath(cfgOut.PKI[k].Endpoint).host) # {}

\* Witness for C31: an accepted configuration whose last backend has a
\* bandwidth group and an SSO, and that has a PKI with an endpoint.
C31_Witness ==
  /\ Accepted
  /\ cfgOut.Backends # <<>>
  /\ Last(cfgOut.Backends).BWLimit # ""
  /\ ~Last(cfgOut.Backends).SSO.nil
  /\ \E k \in DOMAIN cfgOut.PKI : cfgOut.PKI[k].Endpoint # ""

\* C32: in every configuration Check accepts, the IdentityProvider of a
\* passkey provider is the name of another identity provider of the
\* configuration: an OIDC provider, a SAML provider or a passkey provider
\* other than itself.
C32_PasskeyNamesAnotherProvider ==
  Accepted =>
    \A i \in DOMAIN cfgOut.PasskeyProviders :
      cfgOut.PasskeyProviders[i].IdentityProvider \in
        NamesIn(cfgOut.OIDCProviders) \cup NamesIn(cfgOut.SAMLProviders)
          \cup {cfgOut.PasskeyProviders[j].Name :
                  j \in DOMAIN cfgOut.PasskeyProviders \ {i}}

\* A field as Check must leave it: the value of the file where it gives one,
\* the default otherwise.
Defaulted(written, left, default) ==
  left = IF written.nil THEN default ELSE written

\* C33: in every configuration Check accepts, the half-close fields of every
\* backend are set: a value of the file is kept; where the file gives none,
\* ServerCloseEndsConnection and ClientCloseEndsConnection are false in mode
\* QUIC and true and false in the other modes, and HalfCloseTimeout is 60
\* seconds.
C33_HalfCloseDefaulted ==
  Accepted =>
    \A i \in DOMAIN cfgOut.Backends :
      LET in == cfgIn.Backends[i]
          out == cfgOut.Backends[i]
          quic == out.Mode = ModeQUIC
      IN  /\ Defaulted(in.ServerCloseEndsConnection, out.ServerCloseEndsConnection,
                       Bool(~quic))
          /\ Defaulted(in.ClientCloseEndsConnection, out.ClientCloseEndsConnection,
                       Bool(FALSE))
          /\ Defaulted(in.HalfCloseTimeout, out.HalfCloseTimeout, Duration(60))

\* The handlers that make a dial attempt on backend b in the step.
Attempting(b) ==
  {c \in DOMAIN conn :
     conn[c].be = b /\ conn'[c].tried # conn[c].tried /\ conn'[c].tried # <<>>}

\* On the states: the cursor of a backend with N addresses is an index of
\* its list, and after K attempts in all it is K mod N.
C34_State ==
  \A b \in BackendIds :
    /\ next[b] \in 0..(Backends[b].nAddr - 1)
    /\ next[b] = dials[b]

\* On the steps: the cursor moves with an attempt only; an attempt is made
\* by one call at a time, at the address under the cursor, and leaves the
\* cursor, which the attempt after it will take, on another value.
C34_BackToBack ==
  \A b \in BackendIds :
    IF Attempting(b) = {} THEN next'[b] = next[b]
    ELSE /\ Cardinality(Attempting(b)) = 1
         /\ \A c \in Attempting(b) : Last(conn'[c].tried) = next[b]
         /\ next'[b] # next[b]

\* The same, the cursor moving on where the backend has two addresses or
\* more.
C34_Step ==
  \A b \in BackendIds :
    IF Attempting(b) = {} THEN next'[b] = next[b]
    ELSE /\ Cardinality(Attempting(b)) = 1
         /\ \A c \in Attempting(b) : Last(conn'[c].tried) = next[b]
         /\ Backends[b].nAddr >= 2 => next'[b] # next[b]

\* C34 as stated: the updates of the cursor of a backend are serialized:
\* the cursor is always an index of the list of its N >= 1 addresses, after
\* K attempts in all, by any number of concurrent dial calls, it is K mod N,
\* and no two attempts made back to back take the same cursor value.
C34_CursorCountsAttempts == []C34_State /\ [][C34_BackToBack]_vars

\* C34, amended: two attempts made back to back take different cursor
\* values on a backend with two addresses or more; a backend with one
\* address is dialed at that address every time.
C34_CursorSerialized == []C34_State /\ [][C34_Step]_vars

\* C34 witness: the dial calls of two handlers on the backend with NumAddr
\* addresses interleaved, one of them tried every address, and the cursor
\* is back on the first address.
C34_Witness ==
  \E b \in BackendIds :
    /\ Backends[b].nAddr = NumAddr
    /\ overlapped[b]
    /\ next[b] = 0
    /\ \E c \in Calls(b) : Len(conn[c].tried) = NumAddr

\* The helper goroutine of connection c copies, waits to hand its result to
\* the handler, or has handed it over.
HelperCopying(c) == conn[c].pc \in {"forward", "teardown"} /\ conn[c].i2e = ""
HelperSending(c) == conn[c].pc = "forward" /\ conn[c].i2e # ""
\* The handler is in its receive from ch.
HandlerReceiving(c) == conn[c].pc = "forward" /\ conn[c].e2i # ""

\* C35, the state: past the forwarding, the copies of both directions have
\* returned, so that no goroutine of the connection is left copying or
\* waiting to send.
C35_State ==
  \A c \in DOMAIN conn :
    conn[c].pc = "teardown" /\ conn[c].exit = "end" =>
      conn[c].e2i # "" /\ conn[c].i2e # "" /\ ~HelperCopying(c)

\* C35, the steps: the handler leaves the forwarding only from its receive,
\* with the helper waiting to send.
C35_Step ==
  \A c \in DOMAIN conn :
    conn[c].pc = "forward" /\ conn'[c].pc # "forward" =>
      /\ HandlerReceiving(c) /\ HelperSending(c)
      /\ conn'[c].pc = "teardown"

\* C35: the handler starts its teardown only after the copies of both
\* directions have returned; the helper goroutine, once the handler is in
\* its receive, hands its result over and exits; no goroutine of the
\* connection is left behind the handler.
C35_HandlerJoinsHelper ==
  /\ []C35_State
  /\ [][C35_Step]_vars
  /\ \A c \in Conns : (HandlerReceiving(c) /\ HelperSending(c)) ~> conn[c].pc # "forward"

\* C35 witness: the handler has returned from the forwarding after both
\* copies ended with a clean end of stream.
C35_Witness ==
  \E c \in DOMAIN conn :
    /\ conn[c].pc = "teardown" /\ conn[c].exit = "end"
    /\ conn[c].e2i = "eof" /\ conn[c].i2e = "eof"

\* C36: New returns a proxy, without an error, only after its Reconfigure
\* has published the configuration: the proxy New returned has a
\* configuration and a mapping, and Start never runs on a proxy without
\* them.
C36_NewProxyIsConfigured ==
  proc # "init" =>
    /\ pcfg # NoConfig
    /\ mapping # EmptyMapping
    /\ proc # "crashed"

\* C37: in every configuration Check accepts, MaxOpen is at least 1, whether
\* the file gives it or Check takes it from the limit on open files, so
\* that the first connection accepted while none is open passes the
\* admission test.
C37_MaxOpenAdmitsFirstConnection ==
  Accepted =>
    /\ cfgOut.MaxOpen >= 1
    /\ ~TooManyOpen(1, cfgOut.MaxOpen)

\* C38: Check on a configuration that Check accepted and left succeeds and
\* changes nothing in it: the modes, server names, ALPN lists, timeouts,
\* rate limits and every other field stay as the first Check left them.
C38_CheckIdempotent ==
  [][Accepted => checkErr' = "" /\ cfgOut' = cfgOut]_vars

\* C38 witness: Check has run a second time, on a configuration in which the
\* first run had defaulted TLSAddr, the mode, the ALPN list and the
\* ForwardTimeout of a backend.
C38_Witness ==
  /\ Accepted
  /\ cfgIn = cfgOut
  /\ cfgIn.TLSAddr = ":10443"
  /\ \E i \in DOMAIN cfgIn.Backends :
       /\ cfgIn.Backends[i].Mode = ModeTCP
       /\ cfgIn.Backends[i].ServerNames = <<"a.test">>
       /\ cfgIn.Backends[i].ALPNProtos = List(defaultALPNProtos)
       /\ cfgIn.Backends[i].ForwardTimeout = 30

\* A call of UpdateECH is running or has returned.
Called == ech.pc \in {"target", "names", "done"}
\* The step sends an update request, for the record of the name at hand.
Patching == Called /\ ech.pc = "names" /\ ech'.pc = "names" /\ ech'.patched # ech.patched
PatchedRecord == <<ech.records[ech.i].Zone, ech.records[ech.i].Names[ech.j]>>
\* The value v ends with the ech parameter of the config list cl.
EndsWithECH(v, cl) ==
  Len(v) >= 2 /\ SubSeq(v, Len(v) - 1, Len(v)) = <<"ech=", Quote(cl)>>
\* The value v is what UpdateECH would write: nothing but one ech
\* parameter, of the config list cl, at its end, after exactly one space.
UpToDate(v, cl) == v = NewValue(v, cl)

\* C39, the state: within one call the data of a zone is fetched at most
\* once, and a second call with the same arguments, after a first call
\* whose requests all succeeded, sends no update request.
C39_State ==
  Called =>
    /\ \A z \in Zones : ech.fetched[z] <= 1
    /\ ech.run = 2 /\ ech.clean => ech.patched[2] = 0

\* C39 as stated, the steps: no update request is sent for a record whose
\* value ends with the ech parameter of the given config list.
C39_EndsWithNotPatched ==
  Patching => ~EndsWithECH(ech.data[PatchedRecord], ech.configList)

\* C39 amended, the steps: no update request is sent for a record whose
\* value is the one UpdateECH would write, and one is sent for every other
\* record named.
C39_Step ==
  /\ Patching => ~UpToDate(ech.data[PatchedRecord], ech.configList)
  /\ (/\ Called /\ ech.pc = "names" /\ ech'.pc = "names" /\ ech'.j # ech.j
      /\ PatchedRecord \in DOMAIN ech.data
      /\ ~UpToDate(ech.data[PatchedRecord], ech.configList)) => Patching

====
